---- MODULE Spec2Model ----
(***************************************************************************)
(* ID3v2 tag container (src/id3v2/id3v2Tag.ts) and ID3v2 footer            *)
(* (src/id3v2/footer.ts) of node-taglib-sharp.                             *)
(*                                                                         *)
(* Byte buffers (ByteVector) are sequences of 0..255.  Strings are         *)
(* sequences of character codes.  A reference that may be undefined is a   *)
(* sequence of length at most one: << >> is undefined, <<x>> is x.         *)
(***************************************************************************)
EXTENDS Integers, Sequences, FiniteSets, TLC

VARIABLES
    \* ---- Footer (footer.ts) ----
    footerData,              \* the buffer handed to Footer.fromData
    footer,                  \* the Footer instance, << >> before construction
    footerError,             \* error raised by the last Footer call, "none" if none
    footerBytes,             \* the last result of Footer.render, << >> if none
    footer2,                 \* Footer.fromData(footer.render()), << >> if none
    footer2Error,            \* the error of that second fromData
    settingsDefaultVersion,  \* Id3v2TagSettings.defaultVersion
    \* ---- Id3v2Tag statics (id3v2Tag.ts:24-30) ----
    defaultVersion,          \* Id3v2Tag._defaultVersion
    forceDefaultVersion,     \* Id3v2Tag._forceDefaultVersion
    spreadOfUndefined,       \* what the build does for f(...undefined)
    \* ---- Id3v2Tag instance ----
    header,                  \* this._header, << >> until read()
    frameList,               \* this._frameList
    performersRole,          \* this._performersRole
    nextUid,                 \* next fresh frame object identity
    \* ---- the file being read and the position of read()/parse() ----
    file,                    \* [header, slots]: the tag stored in the file
    pc,                      \* "new", "scan", "post", "ready", "failed"
    frameDataPosition,       \* parse local
    frameDataEndPosition,    \* parse local
    tdrc, tyer, tdat, time,  \* parse locals: uid of the first such frame, 0 if undefined
    factoryCalls,            \* number of FrameFactory.createFrame calls so far
    parseError,              \* error that left read()/parse(), "none" if none
    \* ---- render() ----
    lastError,               \* error raised by the last operation on the tag, "none" if none
    renderResult,            \* [status, data] of the last render, if no operation followed it
    consecutiveRenders,      \* renders since the last other operation
    renderLog,               \* <<uid, version>> of every frame.render call of that render
    \* ---- SyncData on a buffer ----
    syncInput,               \* the buffer as it was first
    syncBuffer,              \* the buffer, changed in place by the calls
    syncOps,                 \* the calls made on it: "unsync", "resync"
    \* ---- getters ----
    returned,                \* <<v>>: v is what the last getter call returned; << >> before
    roleFilledFrom,          \* the TPE1 and TMCL frames when this._performersRole was filled
    \* ---- another Id3v2Tag, the target of copyTo ----
    targetFrameList          \* target._frameList

footerVars == <<footerData, footer, footerError, footerBytes, footer2, footer2Error,
                settingsDefaultVersion>>
staticVars == <<defaultVersion, forceDefaultVersion, spreadOfUndefined>>
tagVars    == <<header, frameList, performersRole, nextUid>>
parseVars  == <<file, pc, frameDataPosition, frameDataEndPosition, tdrc, tyer, tdat, time,
                factoryCalls, parseError>>
renderVars == <<lastError, renderResult, consecutiveRenders, renderLog>>
syncVars   == <<syncInput, syncBuffer, syncOps>>
getVars    == <<returned, roleFilledFrom>>
copyVars   == <<targetFrameList>>
vars == <<footerVars, staticVars, tagVars, parseVars, renderVars, syncVars, getVars, copyVars>>

Undefined == << >>

(***************************************************************************)
(* Bit arithmetic on non-negative integers.                                *)
(***************************************************************************)
RECURSIVE BitAnd(_, _)
BitAnd(a, b) ==
    IF a = 0 \/ b = 0 THEN 0
    ELSE (a % 2) * (b % 2) + 2 * BitAnd(a \div 2, b \div 2)

RECURSIVE BitOr(_, _)
BitOr(a, b) ==
    IF a = 0 THEN b
    ELSE IF b = 0 THEN a
    ELSE (IF a % 2 = 1 \/ b % 2 = 1 THEN 1 ELSE 0) + 2 * BitOr(a \div 2, b \div 2)

\* a & ~b
BitClear(a, b) == a - BitAnd(a, b)

\* HeaderFlags (headerFlags.ts): bit 7 .. bit 4 of the flags byte
HeaderFlagsUnsynchronication == 128
HeaderFlagsExtendedHeader == 64
HeaderFlagsExperimentalIndicator == 32
HeaderFlagsFooterPresent == 16

\* Id3v2TagSettings.headerSize / footerSize
HeaderSize == 10
FooterSize == 10

(***************************************************************************)
(* SyncData: sync-safe integers.                                           *)
(***************************************************************************)
\* SyncData.toUint: four 7-bit groups, most significant first
ToUint(b) == ((b[1] % 128) * 128 * 128 * 128) + ((b[2] % 128) * 128 * 128)
             + ((b[3] % 128) * 128) + (b[4] % 128)

\* SyncData.fromUint: the low 28 bits split into four 7-bit groups
FromUint(v) == << (v \div (128 * 128 * 128)) % 128, (v \div (128 * 128)) % 128,
                  (v \div 128) % 128, v % 128 >>

(***************************************************************************)
(* Footer                                                                  *)
(***************************************************************************)
\* Footer._fileIdentifier: "3DI"
FooterFileIdentifier == <<51, 68, 73>>

\* ByteVector.startsWith
StartsWith(data, pattern) ==
    /\ Len(data) >= Len(pattern)
    /\ \A i \in 1..Len(pattern) : data[i] = pattern[i]

\* A variant of the mask that forgets the low bit of the version 4 mask
IllegalFlagMaskLoose(version) ==
    CASE version = 2 -> 127
      [] version = 3 -> 15
      [] version = 4 -> 6
      [] OTHER -> 0

\* The mask of flag bits Footer.fromData refuses for a version (0: none refused)
IllegalFlagMask(version) ==
    CASE version = 2 -> 127
      [] version = 3 -> 15
      [] version = 4 -> 7
      [] OTHER -> 0


\* Footer.fromData: [error, footer]; data.get(i) is data[i + 1]
FooterFromData(data) ==
    IF Len(data) < FooterSize
    THEN [error |-> "CorruptFileError", footer |-> Undefined]
    ELSE IF ~StartsWith(data, FooterFileIdentifier)
    THEN [error |-> "CorruptFileError", footer |-> Undefined]
    ELSE IF BitAnd(data[6], IllegalFlagMask(data[4])) > 0
    THEN [error |-> "CorruptFileError", footer |-> Undefined]
    ELSE IF \E i \in 6..9 : data[i + 1] >= 128
    THEN [error |-> "CorruptFileError", footer |-> Undefined]
    ELSE [error |-> "none",
          footer |-> << [majorVersion   |-> data[4],
                         revisionNumber |-> data[5],
                         flags          |-> data[6],
                         tagSize        |-> ToUint(SubSeq(data, 7, 10))] >>]

\* Footer.majorVersion (getter): a stored 0 reads as the default version
FooterMajorVersion(f, dflt) == IF f.majorVersion = 0 THEN dflt ELSE f.majorVersion

\* A variant that writes the size as four plain bytes
FooterRenderPlainSize(f, dflt) ==
    FooterFileIdentifier \o <<FooterMajorVersion(f, dflt), f.revisionNumber, f.flags>>
        \o << (f.tagSize \div (256 * 256 * 256)) % 256, (f.tagSize \div (256 * 256)) % 256,
               (f.tagSize \div 256) % 256, f.tagSize % 256 >>

\* Footer.render
FooterRender(f, dflt) ==
    FooterFileIdentifier \o <<FooterMajorVersion(f, dflt), f.revisionNumber, f.flags>>
        \o FromUint(f.tagSize)

\* Guards.byte: the value is an integer of 0..255
GuardsByte(value) == value \in 0..255

\* Guards.uint: the value is an integer of 0..2^32-1; the values tried are below
\* 2^31, so that only the lower limit can refuse one
GuardsUint(value) == value >= 0

\* A variant of the check that compares the stored version byte
FooterFlagsAcceptedStored(f, dflt, value) ==
    /\ ~(BitAnd(value, HeaderFlagsExtendedHeader + HeaderFlagsExperimentalIndicator) > 0
         /\ f.majorVersion < 3)
    /\ ~(BitAnd(value, HeaderFlagsFooterPresent) > 0 /\ f.majorVersion < 4)

\* Footer.flags (setter) does not raise: lines 81-88
FooterFlagsAccepted(f, dflt, value) ==
    /\ ~(BitAnd(value, HeaderFlagsExtendedHeader + HeaderFlagsExperimentalIndicator) > 0
         /\ FooterMajorVersion(f, dflt) < 3)
    /\ ~(BitAnd(value, HeaderFlagsFooterPresent) > 0 /\ FooterMajorVersion(f, dflt) < 4)

\* A variant of the setter that stores the value before it checks it
FooterSetTagSizeUnchecked(f, value) ==
    [error |-> IF GuardsUint(value) THEN "none" ELSE "RangeError",
     footer |-> [f EXCEPT !.tagSize = value]]

\* Footer.flags = value: [error, footer]
FooterSetFlags(f, dflt, value) ==
    IF FooterFlagsAccepted(f, dflt, value)
    THEN [error |-> "none", footer |-> [f EXCEPT !.flags = value]]
    ELSE IF BitAnd(value, HeaderFlagsExtendedHeader + HeaderFlagsExperimentalIndicator) > 0
            /\ FooterMajorVersion(f, dflt) < 3
    THEN [error |-> "Feature only supported in version 2.3+", footer |-> f]
    ELSE [error |-> "Feature only supported in version 2.4+", footer |-> f]

\* Footer.majorVersion = value: [error, footer]
FooterSetMajorVersion(f, value) ==
    IF value # 4
    THEN [error |-> "Argument out of range: Version unsupported", footer |-> f]
    ELSE [error |-> "none", footer |-> [f EXCEPT !.majorVersion = value]]

\* Footer.revisionNumber = value: [error, footer]
FooterSetRevisionNumber(f, value) ==
    IF ~GuardsByte(value)
    THEN [error |-> "RangeError", footer |-> f]
    ELSE [error |-> "none", footer |-> [f EXCEPT !.revisionNumber = value]]

\* Footer.tagSize = value: [error, footer]
FooterSetTagSize(f, value) ==
    IF ~GuardsUint(value)
    THEN [error |-> "RangeError", footer |-> f]
    ELSE [error |-> "none", footer |-> [f EXCEPT !.tagSize = value]]

(***************************************************************************)
(* Frames.  A frame is [uid, frameId, text, flags, renders]: uid is the    *)
(* object identity, text the string array of a text frame, flags a set of  *)
(* Id3v2FrameFlags names, renders what frame.render does ("ok", or the     *)
(* error it raises: "notimpl" for NotImplementedError, "error" otherwise). *)
(***************************************************************************)
\* Id3v2FrameHeader.getSize(version)
FrameHeaderSize(version) == IF version < 3 THEN 6 ELSE 10

RECURSIVE Join(_, _)
\* Array.prototype.join
Join(strings, sep) ==
    IF Len(strings) = 0 THEN << >>
    ELSE IF Len(strings) = 1 THEN strings[1]
    ELSE strings[1] \o sep \o Join(Tail(strings), sep)

\* TextInformationFrame.toString: the text fields joined by "; "
FrameToString(f) == Join(f.text, <<59, 32>>)

\* Frame.size: the size of the field data, one encoding byte and the text
FrameSize(f) == IF f.text = << >> THEN 0 ELSE 1 + Len(Join(f.text, <<0>>))

\* FrameTypes: the four bytes of a frame identifier
FrameIdBytes(id) ==
    CASE id = "TDRC" -> <<84, 68, 82, 67>>
      [] id = "TYER" -> <<84, 89, 69, 82>>
      [] id = "TDAT" -> <<84, 68, 65, 84>>
      [] id = "TIME" -> <<84, 73, 77, 69>>
      [] id = "TMCL" -> <<84, 77, 67, 76>>
      [] OTHER       -> <<84, 73, 84, 50>>

RECURSIVE UnsyncByteVector(_)
\* SyncData.unsyncByteVector: a 0x00 after every 0xFF followed by 0x00 or >= 0xE0
UnsyncByteVector(data) ==
    IF Len(data) < 2 THEN data
    ELSE IF data[1] = 255 /\ (data[2] = 0 \/ data[2] >= 224)
         THEN <<255, 0>> \o UnsyncByteVector(Tail(data))
         ELSE <<data[1]>> \o UnsyncByteVector(Tail(data))

\* A variant that drops every 0x00
ResyncDropsZeros(data) == SelectSeq(data, LAMBDA x : x # 0)

RECURSIVE ResyncByteVector(_)
\* SyncData.resyncByteVector: one pass that drops the 0x00 after every 0xFF
ResyncByteVector(data) ==
    IF Len(data) < 2 THEN data
    ELSE IF data[1] = 255 /\ data[2] = 0
         THEN <<255>> \o ResyncByteVector(SubSeq(data, 3, Len(data)))
         ELSE <<data[1]>> \o ResyncByteVector(Tail(data))

\* Frame.render(version), when it does not raise: the frame header (identifier,
\* size, and from version 3 two flag bytes) and the field data; a version 4 frame
\* marked Desynchronized has its field data unsynchronized
FrameRender(f, version) ==
    LET fieldData == <<0>> \o Join(f.text, <<0>>)
        body == IF version >= 4 /\ "Desynchronized" \in f.flags
                THEN UnsyncByteVector(fieldData) ELSE fieldData
        desync == IF version >= 4 /\ "Desynchronized" \in f.flags THEN 2 ELSE 0
    IN  IF version < 3
        THEN SubSeq(FrameIdBytes(f.frameId), 1, 3) \o <<0, 0, Len(body)>> \o body
        ELSE FrameIdBytes(f.frameId) \o <<0, 0, 0, Len(body), 0, desync>> \o body

(***************************************************************************)
(* The file.  file.header is the tag header stored at position 0,          *)
(* file.slots what follows it, as FrameFactory.createFrame sees it: a slot *)
(* is [kind, frame, len] with kind "frame" (a frame is decoded), "notimpl" *)
(* or "corrupt" (createFrame raises NotImplementedError or                 *)
(* CorruptFileError), "error" (createFrame raises another error) or "none" *)
(* (padding: no frame).  len is the number of bytes the slot occupies.     *)
(***************************************************************************)
RECURSIVE SlotsLen(_)
SlotsLen(slots) == IF slots = << >> THEN 0 ELSE slots[1].len + SlotsLen(Tail(slots))

\* The offset in the file at which slot i starts
SlotStart(slots, i) == HeaderSize + SlotsLen(SubSeq(slots, 1, i - 1))

\* FrameFactory.createFrame(data, file, offset, version, alreadyUnsynced), reading
\* from the file: [kind, frame, offset]
CreateFrame(f, offset) ==
    IF \E i \in 1..Len(f.slots) : SlotStart(f.slots, i) = offset
    THEN LET i == CHOOSE j \in 1..Len(f.slots) : SlotStart(f.slots, j) = offset
             s == f.slots[i]
         IN  [kind |-> s.kind, frame |-> s.frame,
              offset |-> IF s.kind = "frame" THEN offset + s.len ELSE offset]
    ELSE [kind |-> "none", frame |-> << >>, offset |-> offset]

(***************************************************************************)
(* Header (header.ts), as far as the tag uses it.                          *)
(***************************************************************************)
\* Header.majorVersion (setter): flags the version does not support are removed
HeaderSetMajorVersion(h, value) ==
    LET f1 == IF value < 3
              THEN BitClear(h.flags, HeaderFlagsExtendedHeader + HeaderFlagsExperimentalIndicator)
              ELSE h.flags
        f2 == IF value < 4 THEN BitClear(f1, HeaderFlagsFooterPresent) ELSE f1
    IN  [h EXCEPT !.majorVersion = value, !.flags = f2]

\* Header.flags (setter) accepts the value: the checks of footer.ts:81-88
HeaderFlagsAccepted(h, value) ==
    /\ ~(BitAnd(value, HeaderFlagsExtendedHeader + HeaderFlagsExperimentalIndicator) > 0
         /\ h.majorVersion < 3)
    /\ ~(BitAnd(value, HeaderFlagsFooterPresent) > 0 /\ h.majorVersion < 4)

(***************************************************************************)
(* Id3v2Tag                                                                *)
(***************************************************************************)
\* Id3v2Tag.version (getter)
Version(h) == IF forceDefaultVersion THEN defaultVersion ELSE h.majorVersion

\* Id3v2Tag.removeFrames(ident)
RemoveFrames(frames, ident) == SelectSeq(frames, LAMBDA f : f.frameId # ident)

\* The index in frames of the frame object uid (0 if it is not in the list)
IndexOfUid(frames, uid) ==
    IF \E i \in 1..Len(frames) : frames[i].uid = uid
    THEN CHOOSE i \in 1..Len(frames) : frames[i].uid = uid
    ELSE 0

\* frame.text = text, on the frame object uid
SetFrameText(frames, uid, text) ==
    [i \in 1..Len(frames) |->
        IF frames[i].uid = uid THEN [frames[i] EXCEPT !.text = text] ELSE frames[i]]

\* Id3v2Tag.parse, lines 968-976: whether the whole tag is read into data
ParseLoadsData(data, h, pictureLazy) ==
    /\ data # Undefined
    /\ \/ (h.majorVersion < 4 /\ BitAnd(h.flags, HeaderFlagsUnsynchronication) > 0)
       \/ h.tagSize < 1024
       \/ pictureLazy
       \/ BitAnd(h.flags, HeaderFlagsExtendedHeader) > 0

\* A variant of the folding that takes the date text in the other order
ParsePostProcessSwapped(frames, tdrcUid, tdatUid, timeUid) ==
    IF tdrcUid = 0 \/ tdatUid = 0 THEN frames
    ELSE LET tdrcText == FrameToString(frames[IndexOfUid(frames, tdrcUid)])
             tdatText == FrameToString(frames[IndexOfUid(frames, tdatUid)])
         IN  IF Len(tdrcText) # 4 THEN frames
             ELSE IF Len(tdatText) = 4
             THEN LET withDate == tdrcText \o <<45>> \o SubSeq(tdatText, 3, 4)
                                           \o <<45>> \o SubSeq(tdatText, 1, 2)
                      timeText == IF timeUid = 0 THEN << >>
                                  ELSE FrameToString(frames[IndexOfUid(frames, timeUid)])
                      withTime == IF timeUid # 0 /\ Len(timeText) = 4
                                  THEN withDate \o <<84>> \o SubSeq(timeText, 1, 2)
                                                \o <<58>> \o SubSeq(timeText, 3, 4)
                                  ELSE withDate
                      kept == IF timeUid # 0 THEN RemoveFrames(frames, "TDAT") ELSE frames
                  IN  SetFrameText(kept, tdrcUid, <<withTime>>)
             ELSE SetFrameText(frames, tdrcUid, <<tdrcText>>)

\* Id3v2Tag.parse, lines 1054-1080: the frame list after the legacy date fields
\* are folded into the TDRC frame; tdrcUid, tdatUid, timeUid are the frames kept
\* by the scan (0: none)
ParsePostProcess(frames, tdrcUid, tdatUid, timeUid) ==
    IF tdrcUid = 0 \/ tdatUid = 0 THEN frames
    ELSE LET tdrcText == FrameToString(frames[IndexOfUid(frames, tdrcUid)])
             tdatText == FrameToString(frames[IndexOfUid(frames, tdatUid)])
         IN  IF Len(tdrcText) # 4 THEN frames
             ELSE IF Len(tdatText) = 4
             THEN LET withDate == tdrcText \o <<45>> \o SubSeq(tdatText, 1, 2)
                                           \o <<45>> \o SubSeq(tdatText, 3, 4)
                      timeText == IF timeUid = 0 THEN << >>
                                  ELSE FrameToString(frames[IndexOfUid(frames, timeUid)])
                      withTime == IF timeUid # 0 /\ Len(timeText) = 4
                                  THEN withDate \o <<84>> \o SubSeq(timeText, 1, 2)
                                                \o <<58>> \o SubSeq(timeText, 3, 4)
                                  ELSE withDate
                      kept == IF timeUid # 0 THEN RemoveFrames(frames, "TDAT") ELSE frames
                  IN  SetFrameText(kept, tdrcUid, <<withTime>>)
             ELSE SetFrameText(frames, tdrcUid, <<tdrcText>>)

\* Bounds of the model
MaxSlots == 3
MaxFactoryCalls == 5

\* Id3v2Tag.read, and the part of Id3v2Tag.parse before the scan (lines 960-1001).
\* read passes data = undefined, so nothing is loaded: resyncByteVector(undefined)
\* and ExtendedHeader.fromData(undefined) raise
Read(pictureLazy) ==
    /\ pc = "new"
    /\ header' = <<file.header>>
    /\ LET h == file.header
           position == 0 + HeaderSize
           data == Undefined
           fullTagUnsync == h.majorVersion < 4
                            /\ BitAnd(h.flags, HeaderFlagsUnsynchronication) > 0
       IN  IF h.tagSize = 0
           THEN /\ pc' = "ready"
                /\ UNCHANGED <<frameDataPosition, frameDataEndPosition, parseError>>
           ELSE IF ~ParseLoadsData(data, h, pictureLazy)
                   /\ (fullTagUnsync \/ BitAnd(h.flags, HeaderFlagsExtendedHeader) > 0)
           THEN /\ pc' = "failed"
                /\ parseError' = "error"
                /\ UNCHANGED <<frameDataPosition, frameDataEndPosition>>
           ELSE /\ pc' = "scan"
                /\ frameDataPosition' = position
                /\ frameDataEndPosition' = h.tagSize + position - FrameHeaderSize(h.majorVersion)
                /\ UNCHANGED parseError
    /\ UNCHANGED <<copyVars, syncVars, getVars, footerVars, staticVars, frameList, performersRole, nextUid, file,
                   tdrc, tyer, tdat, time, factoryCalls, renderVars>>

\* A variant that adds every frame the factory returns
KeepsEveryFrame(frame) == TRUE

\* lines 1028-1031: only frames that contain data are added
KeepsFrame(frame) == FrameSize(frame) # 0

\* One iteration of the scan of Id3v2Tag.parse (lines 1003-1050)
ParseScan ==
    /\ pc = "scan"
    /\ frameDataPosition < frameDataEndPosition
    /\ factoryCalls < MaxFactoryCalls
    /\ factoryCalls' = factoryCalls + 1
    /\ LET frameRead == CreateFrame(file, frameDataPosition)
           version == header[1].majorVersion
       IN  CASE frameRead.kind \in {"notimpl", "corrupt"} ->
                    \* caught: continue, frameDataPosition was not assigned
                    UNCHANGED <<pc, frameDataPosition, frameList, nextUid,
                                tdrc, tyer, tdat, time, parseError>>
             [] frameRead.kind = "error" ->
                    /\ pc' = "failed"
                    /\ parseError' = "error"
                    /\ UNCHANGED <<frameDataPosition, frameList, nextUid,
                                   tdrc, tyer, tdat, time>>
             [] frameRead.kind = "none" ->
                    /\ pc' = "post"
                    /\ frameDataPosition' = frameRead.offset
                    /\ UNCHANGED <<frameList, nextUid, tdrc, tyer, tdat, time, parseError>>
             [] frameRead.kind = "frame" ->
                    LET frame == [frameRead.frame[1] EXCEPT !.uid = nextUid]
                    IN  /\ frameDataPosition' = frameRead.offset
                        /\ UNCHANGED <<pc, parseError>>
                        /\ IF ~KeepsFrame(frame)
                           THEN UNCHANGED <<frameList, nextUid, tdrc, tyer, tdat, time>>
                           ELSE /\ frameList' = Append(frameList, frame)
                                /\ nextUid' = nextUid + 1
                                /\ IF version = 4
                                   THEN UNCHANGED <<tdrc, tyer, tdat, time>>
                                   ELSE /\ tdrc' = IF tdrc = 0 /\ frame.frameId = "TDRC"
                                                   THEN frame.uid ELSE tdrc
                                        /\ tyer' = IF ~(tdrc = 0 /\ frame.frameId = "TDRC")
                                                      /\ tyer = 0 /\ frame.frameId = "TYER"
                                                   THEN frame.uid ELSE tyer
                                        /\ tdat' = IF ~(tdrc = 0 /\ frame.frameId = "TDRC")
                                                      /\ ~(tyer = 0 /\ frame.frameId = "TYER")
                                                      /\ tdat = 0 /\ frame.frameId = "TDAT"
                                                   THEN frame.uid ELSE tdat
                                        /\ time' = IF ~(tdrc = 0 /\ frame.frameId = "TDRC")
                                                      /\ ~(tyer = 0 /\ frame.frameId = "TYER")
                                                      /\ ~(tdat = 0 /\ frame.frameId = "TDAT")
                                                      /\ time = 0 /\ frame.frameId = "TIME"
                                                   THEN frame.uid ELSE time
    /\ UNCHANGED <<copyVars, syncVars, getVars, footerVars, staticVars, header, performersRole, file,
                   frameDataEndPosition, renderVars>>

\* The end of the scan and the post-processing of Id3v2Tag.parse (lines 1052-1081)
ParsePost ==
    /\ \/ pc = "post"
       \/ pc = "scan" /\ ~(frameDataPosition < frameDataEndPosition)
    /\ frameList' = ParsePostProcess(frameList, tdrc, tdat, time)
    /\ pc' = "ready"
    /\ UNCHANGED <<copyVars, syncVars, getVars, footerVars, staticVars, header, performersRole, nextUid, file,
                   frameDataPosition, frameDataEndPosition, tdrc, tyer, tdat, time,
                   factoryCalls, parseError, renderVars>>

(***************************************************************************)
(* Id3v2Tag.setNumberFrame, setTextFrame, and the comment and lyrics       *)
(* setters.  A string is the sequence of its character codes.              *)
(***************************************************************************)
RECURSIVE NumberToString(_)
\* Number.prototype.toString() of an unsigned integer
NumberToString(n) ==
    IF n < 10 THEN <<48 + n>> ELSE NumberToString(n \div 10) \o <<48 + (n % 10)>>

RECURSIVE PadStart(_, _, _)
\* String.prototype.padStart(targetLength, pad) with a pad of one character
PadStart(string, targetLength, pad) ==
    IF Len(string) >= targetLength THEN string
    ELSE PadStart(<<pad>> \o string, targetLength, pad)

\* The index in frames of the first frame with the identifier (0: none)
IndexOfIdent(frames, ident) ==
    IF \E i \in 1..Len(frames) : frames[i].frameId = ident
    THEN CHOOSE i \in 1..Len(frames) :
             /\ frames[i].frameId = ident
             /\ \A j \in 1..(i - 1) : frames[j].frameId # ident
    ELSE 0

\* X.get(this, ..., true) followed by frame.text = text: the first frame with
\* the identifier, or a new frame uid added to the tag, is given the text
GetOrCreateWithText(frames, uid, ident, text) ==
    IF IndexOfIdent(frames, ident) # 0
    THEN [frames |-> [frames EXCEPT ![IndexOfIdent(frames, ident)].text = text], created |-> FALSE]
    ELSE [frames |-> Append(frames, [uid |-> uid, frameId |-> ident, text |-> text,
                                     flags |-> {}, renders |-> "ok"]),
          created |-> TRUE]

\* Id3v2Tag.setTextFrame(ident, ...text) for an identifier that is no URL frame
SetTextFrame(frames, uid, ident, text) ==
    IF \A i \in 1..Len(text) : text[i] = << >>
    THEN [frames |-> RemoveFrames(frames, ident), created |-> FALSE]
    ELSE GetOrCreateWithText(frames, uid, ident, text)

\* lines 906-914: the frames after setNumberFrame with arguments that pass the guards
SetNumberFrameFrames(frames, uid, ident, numerator, denominator, minPlaces) ==
    IF numerator = 0 /\ denominator = 0
    THEN [frames |-> RemoveFrames(frames, ident), created |-> FALSE]
    ELSE IF denominator # 0
    THEN SetTextFrame(frames, uid, ident,
                      <<PadStart(NumberToString(numerator), minPlaces, 48)
                          \o <<47>> \o NumberToString(denominator)>>)
    ELSE SetTextFrame(frames, uid, ident, <<NumberToString(numerator)>>)

\* Id3v2Tag.comment = value
SetCommentFrames(frames, uid, value) ==
    IF value = << >>
    THEN [frames |-> RemoveFrames(frames, "COMM"), created |-> FALSE]
    ELSE [frames |-> frames, created |-> FALSE]

\* A variant of the lyrics setter that handles the empty value only
SetLyricsRemovesOnly(frames, uid, value) ==
    IF value = << >>
    THEN [frames |-> RemoveFrames(frames, "USLT"), created |-> FALSE]
    ELSE [frames |-> frames, created |-> FALSE]

\* Id3v2Tag.lyrics = value
SetLyricsFrames(frames, uid, value) ==
    IF value = << >>
    THEN [frames |-> RemoveFrames(frames, "USLT"), created |-> FALSE]
    ELSE GetOrCreateWithText(frames, uid, "USLT", <<value>>)

(***************************************************************************)
(* Id3v2Tag.performers and Id3v2Tag.performersRole.  An array of strings   *)
(* is a sequence of strings; an element that was never assigned is the     *)
(* empty string.                                                           *)
(***************************************************************************)
\* Id3v2Tag.getTextAsArray(ident)
GetTextAsArray(frames, ident) ==
    IF IndexOfIdent(frames, ident) = 0 THEN << >>
    ELSE frames[IndexOfIdent(frames, ident)].text

RECURSIVE Split(_, _)
\* String.prototype.split(separator) with a separator of one character
Split(string, separator) ==
    IF \A i \in 1..Len(string) : string[i] # separator THEN <<string>>
    ELSE LET i == CHOOSE k \in 1..Len(string) :
                      /\ string[k] = separator
                      /\ \A j \in 1..(k - 1) : string[j] # separator
         IN  <<SubSeq(string, 1, i - 1)>> \o Split(SubSeq(string, i + 1, Len(string)), separator)

RECURSIVE Trim(_)
\* String.prototype.trim(), the white space being the space character
Trim(string) ==
    IF string = << >> THEN string
    ELSE IF Head(string) = 32 THEN Trim(Tail(string))
    ELSE IF string[Len(string)] = 32 THEN Trim(SubSeq(string, 1, Len(string) - 1))
    ELSE string

\* lines 247-253: inst is added to the roles of the performers equal to perf
AddInstrument(role, perfRef, perf, inst) ==
    LET matches == {j \in 1..Len(perfRef) : perfRef[j] = perf}
        last == IF matches = {} THEN 0 ELSE CHOOSE j \in matches : \A k \in matches : k <= j
        length == IF last > Len(role) THEN last ELSE Len(role)
    IN  [k \in 1..length |->
            LET old == IF k <= Len(role) THEN role[k] ELSE << >>
            IN  IF k \in matches
                THEN IF old # << >> THEN old \o <<59, 32>> \o inst ELSE inst
                ELSE old]

RECURSIVE RolePerformers(_, _, _, _)
\* lines 240-254: the performers of one instrument
RolePerformers(perfList, perfRef, inst, role) ==
    IF perfList = << >> THEN role
    ELSE RolePerformers(Tail(perfList), perfRef, inst,
                        IF Head(perfList) = << >> \/ Trim(Head(perfList)) = << >>
                        THEN role
                        ELSE AddInstrument(role, perfRef, Trim(Head(perfList)), inst))

RECURSIVE RolePairs(_, _, _, _)
\* lines 235-255: the pairs of instrument and performers of the TMCL text, from
\* index i on (1-based)
RolePairs(map, i, perfRef, role) ==
    IF i + 1 > Len(map) THEN role
    ELSE IF map[i] = << >> \/ map[i + 1] = << >>
    THEN RolePairs(map, i + 2, perfRef, role)
    ELSE RolePairs(map, i + 2, perfRef,
                   RolePerformers(Split(map[i + 1], 44), perfRef, map[i], role))

\* Id3v2Tag.performersRole (getter), lines 229-257: the roles computed from the
\* TPE1 and TMCL frames
ComputePerformersRole(frames) ==
    RolePairs(GetTextAsArray(frames, "TMCL"), 1, GetTextAsArray(frames, "TPE1"), << >>)

\* The frames the roles are computed from
RoleFramesOf(frames) ==
    SelectSeq(frames, LAMBDA f : f.frameId \in {"TPE1", "TMCL"})

(***************************************************************************)
(* Id3v2Tag.copyTo onto another Id3v2Tag.                                  *)
(***************************************************************************)
\* frame.clone(): a new frame object uid with the content of the frame
Clone(frame, uid) == [frame EXCEPT !.uid = uid]

\* A variant that copies whatever the target holds
CopiesAlways(target, ident, overwrite) == TRUE

\* lines 659-670: whether the frames with the identifier are copied
Copies(target, ident, overwrite) ==
    overwrite \/ \A i \in 1..Len(target) : target[i].frameId # ident

RECURSIVE CopyIdent(_, _, _, _, _, _)
\* lines 672-682: the inner loop, from index i on (1-based), over the frames left
\* to copy: [frames, target, uid]
CopyIdent(frames, i, ident, copy, target, uid) ==
    IF i > Len(frames) THEN [frames |-> frames, target |-> target, uid |-> uid]
    ELSE IF frames[i].frameId = ident
    THEN CopyIdent(SubSeq(frames, 1, i - 1) \o SubSeq(frames, i + 1, Len(frames)),
                   i, ident, copy,
                   IF copy THEN Append(target, Clone(frames[i], uid)) ELSE target,
                   IF copy THEN uid + 1 ELSE uid)
    ELSE CopyIdent(frames, i + 1, ident, copy, target, uid)

RECURSIVE CopyFrames(_, _, _, _, _)
\* lines 656-683: the outer loop over the frames left to copy; rounds counts its
\* iterations: [target, uid, rounds]
CopyFrames(frames, target, overwrite, uid, rounds) ==
    IF Len(frames) = 0 THEN [target |-> target, uid |-> uid, rounds |-> rounds]
    ELSE LET ident == frames[1].frameId
             copy == Copies(target, ident, overwrite)
             match == IF overwrite THEN RemoveFrames(target, ident) ELSE target
             r == CopyIdent(frames, 1, ident, copy, match, uid)
         IN  CopyFrames(r.frames, r.target, overwrite, r.uid, rounds + 1)

(***************************************************************************)
(* The year property, and the identifier properties kept in TXXX and UFID  *)
(* frames.  A TXXX or UFID frame is [uid, frameId, key, text]: key is the  *)
(* description of a TXXX frame and the owner of a UFID frame, text the     *)
(* text array of a TXXX frame and the identifier of a UFID frame.          *)
(***************************************************************************)
\* Id3v2Tag.getTextAsString(ident) for an identifier that is no URL frame
GetTextAsString(frames, ident) ==
    IF IndexOfIdent(frames, ident) = 0 THEN Undefined
    ELSE FrameToString(frames[IndexOfIdent(frames, ident)])

\* What stands for the NaN of Number.parseInt: no number the digits can write
NaN == -1

RECURSIVE ParseInt(_, _)
\* Number.parseInt(string, 10) of a string without sign or leading white space:
\* the number its leading digits write after acc, NaN if there is none
ParseInt(string, acc) ==
    IF string = << >> \/ Head(string) \notin 48..57 THEN acc
    ELSE ParseInt(Tail(string), (IF acc = NaN THEN 0 ELSE acc * 10) + Head(string) - 48)

\* Id3v2Tag.year (getter), lines 350-361
GetYearValue(frames) ==
    LET text == GetTextAsString(frames, "TDRC")
    IN  IF text = Undefined \/ Len(text) < 4 THEN 0
        ELSE IF ParseInt(SubSeq(text, 1, 4), NaN) = NaN \/ ParseInt(SubSeq(text, 1, 4), NaN) < 0
        THEN 0
        ELSE ParseInt(SubSeq(text, 1, 4), NaN)

\* The identifier properties
IdProperties ==
    { "musicBrainzArtistId", "musicBrainzReleaseGroupId", "musicBrainzReleaseId",
      "musicBrainzReleaseArtistId", "musicBrainzTrackId", "musicBrainzDiscId",
      "musicIpId", "amazonId", "musicBrainzReleaseStatus", "musicBrainzReleaseType",
      "musicBrainzReleaseCountry" }

\* The frame type of a property
IdFrameType(property) == IF property = "musicBrainzTrackId" THEN "UFID" ELSE "TXXX"

\* lines 460-515: the description or owner the getter of a property looks for
GetterKey(property) ==
    CASE property = "musicBrainzArtistId"        -> "MusicBrainz Artist Id"
      [] property = "musicBrainzReleaseGroupId"  -> "MusicBrainz Release Group Id"
      [] property = "musicBrainzReleaseId"       -> "MusicBrainz Album Id"
      [] property = "musicBrainzReleaseArtistId" -> "MusicBrainz Album Artist Id"
      [] property = "musicBrainzTrackId"         -> "http://musicbrainz.org"
      [] property = "musicBrainzDiscId"          -> "MusicBrainz Disc Id"
      [] property = "musicIpId"                  -> "MusicIP PUID"
      [] property = "amazonId"                   -> "ASIN"
      [] property = "musicBrainzReleaseStatus"   -> "MusicBrainz Album Status"
      [] property = "musicBrainzReleaseType"     -> "MusicBrainz Album Type"
      [] property = "musicBrainzReleaseCountry"  -> "MusicBrainz Album Release Country"

\* lines 460-515: the description or owner the setter of a property writes to
SetterKey(property) ==
    CASE property = "musicBrainzArtistId"        -> "MusicBrainz Artist Id"
      [] property = "musicBrainzReleaseGroupId"  -> "MusicBrainz Release Group Id"
      [] property = "musicBrainzReleaseId"       -> "MusicBrainz Album Id"
      [] property = "musicBrainzReleaseArtistId" -> "MusicBrainz Album Artist Id"
      [] property = "musicBrainzTrackId"         -> "http://musicBrainz.org"
      [] property = "musicBrainzDiscId"          -> "MusicBrainz Disc Id"
      [] property = "musicIpId"                  -> "MusicIP PUID"
      [] property = "amazonId"                   -> "ASIN"
      [] property = "musicBrainzReleaseStatus"   -> "MusicBrainz Album Status"
      [] property = "musicBrainzReleaseType"     -> "MusicBrainz Album Album Type"
      [] property = "musicBrainzReleaseCountry"  -> "MusicBrainz Album Release Country"

\* UserTextInformationFrame.getUserTextInformationFrame / UniqueFileIdentifierFrame.get
\* without create: the index of the first frame of the type with the key (0: none)
IndexOfKey(frames, type, key) ==
    IF \E i \in 1..Len(frames) : frames[i].frameId = type /\ frames[i].key = key
    THEN CHOOSE i \in 1..Len(frames) :
             /\ frames[i].frameId = type /\ frames[i].key = key
             /\ \A j \in 1..(i - 1) : ~(frames[j].frameId = type /\ frames[j].key = key)
    ELSE 0

\* getUserTextAsString(description) and getUfidText(owner), lines 1130-1153
GetKeyedText(frames, type, key) ==
    IF IndexOfKey(frames, type, key) = 0 THEN Undefined
    ELSE IF type = "UFID" THEN frames[IndexOfKey(frames, type, key)].text[1]
    ELSE Join(frames[IndexOfKey(frames, type, key)].text, <<59>>)

\* setUserTextAsString(description, text) and setUfidText(owner, text), lines
\* 1182-1210: [frames, created]; a frame created for an empty text is removed again
SetKeyedText(frames, uid, type, key, text) ==
    IF text = << >>
    THEN [frames |-> IF IndexOfKey(frames, type, key) = 0 THEN frames
                     ELSE SelectSeq(frames, LAMBDA f :
                              f.uid # frames[IndexOfKey(frames, type, key)].uid),
          created |-> FALSE]
    ELSE LET value == IF type = "UFID" THEN <<text>> ELSE Split(text, 59)
         IN  IF IndexOfKey(frames, type, key) # 0
             THEN [frames |-> [frames EXCEPT ![IndexOfKey(frames, type, key)].text = value],
                   created |-> FALSE]
             ELSE [frames |-> Append(frames, [uid |-> uid, frameId |-> type, key |-> key,
                                              text |-> value]),
                   created |-> TRUE]

(***************************************************************************)
(* Id3v2Tag.render                                                         *)
(***************************************************************************)
\* Id3v2Tag.setTextFrame(ident, undefined): every text is empty, the frames are removed
SetTextFrameEmpty(frames, ident) == RemoveFrames(frames, ident)

\* A variant that renders a tag with a footer at its own version
RenderVersionIgnoresFooter(hasFooter, version) == version

\* line 822: the version the header is set to and the frames are rendered at
RenderVersion(hasFooter, version) == IF hasFooter THEN 4 ELSE version

\* A variant that clears the Unsynchronication flag with the ExtendedHeader flag
ClearExtendedHeaderAndUnsync(flags) ==
    BitClear(flags, HeaderFlagsExtendedHeader + HeaderFlagsUnsynchronication)

\* line 827: this._header.flags &= ~HeaderFlags.ExtendedHeader
ClearExtendedHeader(flags) == BitClear(flags, HeaderFlagsExtendedHeader)

\* line 834: the frame is not rendered
SkipsFrame(f) == "TagAlterPreservation" \in f.flags

\* A variant that assigns the flag instead of adding it
MarkFrameAssigns(f, unsyncAtFrameLevel) ==
    IF unsyncAtFrameLevel THEN [f EXCEPT !.flags = {"Desynchronized"}] ELSE f

\* lines 831-833: frame.flags |= Id3v2FrameFlags.Desynchronized
MarkFrame(f, unsyncAtFrameLevel) ==
    IF unsyncAtFrameLevel THEN [f EXCEPT !.flags = @ \cup {"Desynchronized"}] ELSE f

\* A variant that pads a tag of exactly the previous size up to that size
PaddingSizeInclusive(length, tagSize) == IF length <= tagSize THEN tagSize - length ELSE 1024

\* lines 855-857: the number of padding bytes
PaddingSize(length, tagSize) == IF length < tagSize THEN tagSize - length ELSE 1024

\* ByteVector.fromSize(size)
FromSize(size) == [i \in 1..size |-> 0]

RECURSIVE RenderFrames(_, _, _, _, _)
\* lines 830-846, from frame i on; acc is [frames, tagData, log, status]
RenderFrames(frames, i, unsyncAtFrameLevel, version, acc) ==
    IF i > Len(frames) THEN acc
    ELSE LET frame == MarkFrame(frames[i], unsyncAtFrameLevel)
             marked == [acc.frames EXCEPT ![i] = frame]
             logged == Append(acc.log, <<frame.uid, version>>)
         IN  IF SkipsFrame(frame)
             THEN RenderFrames(frames, i + 1, unsyncAtFrameLevel, version,
                               [acc EXCEPT !.frames = marked])
             ELSE IF frame.renders = "ok"
             THEN RenderFrames(frames, i + 1, unsyncAtFrameLevel, version,
                               [acc EXCEPT !.frames = marked, !.log = logged,
                                           !.tagData = @ \o FrameRender(frame, version)])
             ELSE IF frame.renders = "notimpl"
             THEN RenderFrames(frames, i + 1, unsyncAtFrameLevel, version,
                               [acc EXCEPT !.frames = marked, !.log = logged])
             ELSE [acc EXCEPT !.frames = marked, !.log = logged, !.status = "error"]

\* Id3v2Tag.render from line 816 on, with the header h and the frames as line 810
\* left them: [status, data, header, frames, log]
RenderTagData(h, frames) ==
    LET hasFooter == BitAnd(h.flags, HeaderFlagsFooterPresent) > 0
        unsyncAtFrameLevel == BitAnd(h.flags, HeaderFlagsUnsynchronication) > 0
                              /\ Version(h) >= 4
        unsyncAtTagLevel == BitAnd(h.flags, HeaderFlagsUnsynchronication) > 0
                            /\ Version(h) < 4
        h1 == HeaderSetMajorVersion(h, RenderVersion(hasFooter, Version(h)))
        h2 == [h1 EXCEPT !.flags = ClearExtendedHeader(h1.flags)]
        loop == RenderFrames(frames, 1, unsyncAtFrameLevel, h2.majorVersion,
                             [frames |-> frames, tagData |-> << >>, log |-> << >>,
                              status |-> "ok"])
        synced == IF unsyncAtTagLevel THEN UnsyncByteVector(loop.tagData) ELSE loop.tagData
        padded == IF ~hasFooter
                  THEN synced \o FromSize(PaddingSize(Len(synced), h2.tagSize))
                  ELSE synced
    IN  IF loop.status = "ok"
        THEN [status |-> "ok", data |-> padded, header |-> h2, frames |-> loop.frames,
              log |-> loop.log]
        ELSE [status |-> "error", data |-> << >>, header |-> h2, frames |-> loop.frames,
              log |-> loop.log]

\* Id3v2Tag.render: the tag has the header hdr (<< >>: none), the frames and the
\* performers role cache role (<< >>: none); build is what this.setTextFrame(TMCL,
\* ...ret) does with ret undefined: "throws" (the spread raises a TypeError) or
\* "concat" (the call receives one undefined text)
Render(hdr, frames, role, build) ==
    IF role # << >>
    THEN \* line 804: map.keys is undefined, for..of raises
         [status |-> "TypeError", data |-> << >>, header |-> hdr, frames |-> frames,
          log |-> << >>]
    ELSE IF build = "throws"
    THEN [status |-> "TypeError", data |-> << >>, header |-> hdr, frames |-> frames,
          log |-> << >>]
    ELSE IF hdr = << >>
    THEN \* line 816: this._header is undefined
         [status |-> "TypeError", data |-> << >>, header |-> hdr,
          frames |-> SetTextFrameEmpty(frames, "TMCL"), log |-> << >>]
    ELSE LET r == RenderTagData(hdr[1], SetTextFrameEmpty(frames, "TMCL"))
         IN  [r EXCEPT !.header = <<r.header>>]

(***************************************************************************)
(* Inputs.                                                                 *)
(***************************************************************************)
Frame(id, text, flags, renders) ==
    [uid |-> 0, frameId |-> id, text |-> text, flags |-> flags, renders |-> renders]

\* A slot holding a frame, as stored for a version
FrameSlot(frame, version) ==
    [kind |-> "frame", frame |-> <<frame>>,
     len |-> FrameHeaderSize(version) + FrameSize(frame)]

\* A slot on which createFrame raises
RaisingSlot(kind, version) ==
    [kind |-> kind, frame |-> << >>, len |-> FrameHeaderSize(version) + 1]

\* Padding after the frames
PaddingSlot(n) == [kind |-> "none", frame |-> << >>, len |-> n]

\* "1999", "199", "1225", "122", "0930", "093", "A"
ParseFrames ==
    { Frame("TDRC", << <<49, 57, 57, 57>> >>, {}, "ok"),
      Frame("TDRC", << <<49, 57, 57>> >>, {}, "ok"),
      Frame("TDAT", << <<49, 50, 50, 53>> >>, {}, "ok"),
      Frame("TDAT", << <<49, 50, 50>> >>, {}, "ok"),
      Frame("TIME", << <<48, 57, 51, 48>> >>, {}, "ok"),
      Frame("TIME", << <<48, 57, 51>> >>, {}, "ok"),
      Frame("TIT2", << <<65>> >>, {}, "ok"),
      Frame("TIT2", << >>, {}, "ok") }

ParseSlots(version) ==
    { FrameSlot(f, version) : f \in ParseFrames }
    \cup { RaisingSlot(k, version) : k \in {"notimpl", "corrupt", "error"} }
    \cup { PaddingSlot(12) }

FileOf(version, flags, slots) ==
    [header |-> [majorVersion |-> version, flags |-> flags, tagSize |-> SlotsLen(slots)],
     slots |-> slots]

\* f is a file for the parse: any slots under a header without flags, or at most one
\* slot under a header with a flag its version allows
IsParseFile(f) ==
    \/ \E v \in 2..4, k \in 0..MaxSlots :
          \E slots \in [1..k -> ParseSlots(v)] : f = FileOf(v, 0, slots)
    \/ \E v \in 2..4, k \in 0..1 :
          \E slots \in [1..k -> ParseSlots(v)], fl \in IF v < 3 THEN {128} ELSE {64, 128} :
             f = FileOf(v, fl, slots)

\* No buffer is handed to SyncData
InitSyncIdle ==
    /\ syncInput = << >>
    /\ syncBuffer = << >>
    /\ syncOps = << >>

InitFooterIdle ==
    /\ footerData = << >>
    /\ footer = << >>
    /\ footerError = "unset"
    /\ footerBytes = << >>
    /\ footer2 = << >>
    /\ footer2Error = "unset"
    /\ settingsDefaultVersion = 3

\* A new Id3v2Tag (id3v2Tag.ts:24-35) about to read a file
InitTag(builds) ==
    /\ defaultVersion = 3
    /\ forceDefaultVersion = FALSE
    /\ spreadOfUndefined \in builds
    /\ header = << >>
    /\ frameList = << >>
    /\ performersRole = << >>
    /\ nextUid = 1
    /\ pc = "new"
    /\ frameDataPosition = 0
    /\ frameDataEndPosition = 0
    /\ tdrc = 0 /\ tyer = 0 /\ tdat = 0 /\ time = 0
    /\ factoryCalls = 0
    /\ parseError = "none"
    /\ lastError = "none"
    /\ renderResult = [status |-> "none", data |-> << >>]
    /\ consecutiveRenders = 0
    /\ renderLog = << >>
    /\ returned = << >>
    /\ roleFilledFrom = << >>
    /\ targetFrameList = << >>

(***************************************************************************)
(* ParseSpec: a new tag reads a file.                                      *)
(***************************************************************************)
ParseInit == InitSyncIdle /\ InitFooterIdle /\ InitTag({"throws"}) /\ IsParseFile(file)

ParseNext ==
    \/ \E pictureLazy \in BOOLEAN : Read(pictureLazy)
    \/ ParseScan
    \/ ParsePost

ParseSpec == ParseInit /\ [][ParseNext]_vars

(***************************************************************************)
(* Properties of the parse.                                                *)
(***************************************************************************)
HasFrame(frames, id) == \E i \in 1..Len(frames) : frames[i].frameId = id

\* The first frame of frames with identifier id
FirstFrame(frames, id) ==
    frames[CHOOSE i \in 1..Len(frames) :
               /\ frames[i].frameId = id
               /\ \A j \in 1..(i - 1) : frames[j].frameId # id]

\* The frame object uid as it is in frames
FrameOfUid(frames, uid) == frames[CHOOSE i \in 1..Len(frames) : frames[i].uid = uid]

\* This step completes a parse
ParseCompletes == pc \in {"scan", "post"} /\ pc' = "ready"

\* The scan is about to call the frame factory on a slot where it raises
\* NotImplementedError or CorruptFileError
FactoryWillSignal ==
    /\ pc = "scan"
    /\ frameDataPosition < frameDataEndPosition
    /\ CreateFrame(file, frameDataPosition).kind \in {"notimpl", "corrupt"}

\* C1: when the frame factory raises "not implemented" or "corrupt" for a frame,
\* the frame is skipped: the scan continues past it (its next call of the factory
\* is at a later offset)
C1_SignalledFrameIsSkipped ==
    [][(FactoryWillSignal /\ factoryCalls' = factoryCalls + 1)
           => frameDataPosition' > frameDataPosition]_vars

\* The year (TDRC) and date (TDAT) frames of a tag of version < 4 both hold four
\* characters
LegacyDateFoldable(frames) ==
    /\ header[1].majorVersion < 4
    /\ HasFrame(frames, "TDRC") /\ HasFrame(frames, "TDAT")
    /\ Len(FrameToString(FirstFrame(frames, "TDRC"))) = 4
    /\ Len(FrameToString(FirstFrame(frames, "TDAT"))) = 4

\* year + "-ab-cd", and "THH:MM" when there is a time (TIME) frame of four characters
ExpectedYearText(frames) ==
    LET year == FrameToString(FirstFrame(frames, "TDRC"))
        date == FrameToString(FirstFrame(frames, "TDAT"))
        dated == year \o <<45, date[1], date[2], 45, date[3], date[4]>>
    IN  IF HasFrame(frames, "TIME") /\ Len(FrameToString(FirstFrame(frames, "TIME"))) = 4
        THEN LET t == FrameToString(FirstFrame(frames, "TIME"))
             IN  dated \o <<84, t[1], t[2], 58, t[3], t[4]>>
        ELSE dated

\* C2: after the parse of a tag of version < 4 with a year frame of four characters
\* and a date frame "abcd", the text of the year frame is year + "-ab-cd", followed
\* by "THH:MM" when a time frame of four characters is present
C2_LegacyDateFolded ==
    [][(ParseCompletes /\ LegacyDateFoldable(frameList))
           => /\ HasFrame(frameList', "TDRC")
              /\ FirstFrame(frameList', "TDRC").uid = FirstFrame(frameList, "TDRC").uid
              /\ FirstFrame(frameList', "TDRC").text = <<ExpectedYearText(frameList)>>]_vars

\* "1999-12-25T09:30" has been folded into the year frame of a version 3 tag
C2_Witness ==
    /\ pc = "ready"
    /\ header[1].majorVersion = 3
    /\ tdrc # 0 /\ tdat # 0 /\ time # 0
    /\ FrameOfUid(frameList, tdrc).text
         = << <<49, 57, 57, 57, 45, 49, 50, 45, 50, 53, 84, 48, 57, 58, 51, 48>> >>

\* C3: whenever the parse folds the legacy date fields into the year frame
\* (version < 4, year frame of four characters, date frame present), no date frame
\* remains in the frame list, with or without a time frame
C3_NoDateFrameRemains ==
    [][(/\ ParseCompletes
        /\ header[1].majorVersion < 4
        /\ HasFrame(frameList, "TDRC") /\ HasFrame(frameList, "TDAT")
        /\ Len(FrameToString(FirstFrame(frameList, "TDRC"))) = 4)
           => ~HasFrame(frameList', "TDAT")]_vars

(***************************************************************************)
(* FooterSpec: a buffer is handed to Footer.fromData, the footer is        *)
(* rendered, and the rendered bytes are handed to Footer.fromData again.   *)
(***************************************************************************)
\* The four size bytes tried
FooterSizeBytes ==
    [1..4 -> {0, 128}] \cup { <<127, 127, 127, 127>>, <<0, 0, 1, 2>>, <<1, 0, 0, 0>> }

\* Buffers of 10 bytes: "3DI" or "ID3", version, revision, flags, size
FooterBuffers ==
    { id \o <<version, revision, flags>> \o size :
        id \in { <<51, 68, 73>>, <<73, 68, 51>> },
        version \in {0, 2, 3, 4, 5},
        revision \in {0, 7},
        flags \in {0, 1, 2, 4, 8, 16, 32, 64, 128, 240},
        size \in FooterSizeBytes }

\* The same, one byte short, exact, and with one more byte
FooterInputs ==
    FooterBuffers
    \cup { SubSeq(b, 1, 9) : b \in FooterBuffers }
    \cup { b \o <<0>> : b \in FooterBuffers }

FooterInit ==
    /\ footerData \in FooterInputs
    /\ footer = << >>
    /\ footerError = "unset"
    /\ footerBytes = << >>
    /\ footer2 = << >>
    /\ footer2Error = "unset"
    /\ settingsDefaultVersion \in 2..4
    /\ InitTag({"throws"})
    /\ file = FileOf(3, 0, << >>)
    /\ InitSyncIdle

\* footer = Footer.fromData(footerData)
FooterFromDataStep ==
    /\ footerError = "unset"
    /\ \E r \in {FooterFromData(footerData)} :
           /\ footer' = r.footer
           /\ footerError' = r.error
    /\ UNCHANGED <<copyVars, syncVars, getVars, footerData, footerBytes, footer2, footer2Error, settingsDefaultVersion,
                   staticVars, tagVars, parseVars, renderVars>>

\* footerBytes = footer.render()
FooterRenderStep ==
    /\ footer # << >>
    /\ footerBytes = << >>
    /\ footerBytes' = FooterRender(footer[1], settingsDefaultVersion)
    /\ UNCHANGED <<copyVars, syncVars, getVars, footerData, footer, footerError, footer2, footer2Error,
                   settingsDefaultVersion, staticVars, tagVars, parseVars, renderVars>>

\* footer2 = Footer.fromData(footerBytes)
FooterReparseStep ==
    /\ footerBytes # << >>
    /\ footer2Error = "unset"
    /\ \E r \in {FooterFromData(footerBytes)} :
           /\ footer2' = r.footer
           /\ footer2Error' = r.error
    /\ UNCHANGED <<copyVars, syncVars, getVars, footerData, footer, footerError, footerBytes, settingsDefaultVersion,
                   staticVars, tagVars, parseVars, renderVars>>

FooterNext ==
    \/ FooterFromDataStep
    \/ FooterRenderStep
    \/ FooterReparseStep

FooterSpec == FooterInit /\ [][FooterNext]_vars

(***************************************************************************)
(* Properties of the footer.                                               *)
(***************************************************************************)
\* A flag bit that is illegal for the version is set: version 2, bits 0-6;
\* version 3, the low 4 bits; version 4, the low 3 bits
IllegalFlagBitSet(version, flags) ==
    \/ version = 2 /\ flags % 128 # 0
    \/ version = 3 /\ flags % 16 # 0
    \/ version = 4 /\ flags % 8 # 0

\* C9: Footer.fromData fails with CorruptFileError when the buffer is shorter than
\* 10 bytes, or does not start with "3DI", or one of bytes 6..9 is >= 128, or a flag
\* bit illegal for the version is set; a version 4 footer with only FooterPresent
\* set and valid size bytes is accepted
C9_FromDataRejects ==
    footerError # "unset" =>
        /\ (\/ Len(footerData) < 10
            \/ SubSeq(footerData, 1, 3) # <<51, 68, 73>>
            \/ \E i \in 7..10 : footerData[i] >= 128
            \/ IllegalFlagBitSet(footerData[4], footerData[6]))
              => (footerError = "CorruptFileError" /\ footer = << >>)
        /\ (/\ Len(footerData) >= 10
            /\ SubSeq(footerData, 1, 3) = <<51, 68, 73>>
            /\ footerData[4] = 4
            /\ footerData[6] = 16
            /\ \A i \in 7..10 : footerData[i] < 128)
              => (footerError = "none" /\ footer # << >> /\ footer[1].flags = 16)

\* fromData has refused a version 4 footer of full length, with the identifier and
\* valid size bytes, for an illegal flag bit alone
C9_Witness ==
    /\ footerError = "CorruptFileError"
    /\ Len(footerData) >= 10
    /\ SubSeq(footerData, 1, 3) = <<51, 68, 73>>
    /\ footerData[4] = 4
    /\ footerData[6] % 8 # 0
    /\ \A i \in 7..10 : footerData[i] < 128

\* C10: for every Footer f that Footer.fromData accepts, Footer.fromData(f.render())
\* succeeds and yields the majorVersion, revisionNumber, flags and tagSize of f
C10_FooterRoundTrip ==
    footer2Error # "unset" =>
        /\ footer2Error = "none"
        /\ footer2 # << >>
        /\ FooterMajorVersion(footer2[1], settingsDefaultVersion)
             = FooterMajorVersion(footer[1], settingsDefaultVersion)
        /\ footer2[1].revisionNumber = footer[1].revisionNumber
        /\ footer2[1].flags = footer[1].flags
        /\ footer2[1].tagSize = footer[1].tagSize

(***************************************************************************)
(* Spec: a tag reads a file and is then changed and rendered.              *)
(***************************************************************************)
\* MaxFrames bounds the frame objects a tag is ever given, MaxRenders the renders
\* in a row
MaxFrames == 2
MaxRenders == 2

\* Frames handed to addFrame: a text of the bytes FF E0, a frame discarded on tag
\* alteration, a frame render does not implement, a frame render fails on, a
\* TMCL frame, and a frame without text, of size 0
TagFrames ==
    { Frame("TIT2", << <<255, 224>> >>, {}, "ok"),
      Frame("TIT2", << <<65>> >>, {"TagAlterPreservation"}, "ok"),
      Frame("TIT2", << <<65>> >>, {}, "notimpl"),
      Frame("TIT2", << <<65>> >>, {}, "error"),
      Frame("TMCL", << <<65>> >>, {}, "ok"),
      Frame("TIT2", << >>, {}, "ok") }

\* Files of the tag: a version 4 tag of size 0, and a version 3 tag of one frame,
\* a frame of size 0 and padding
TagFiles ==
    { FileOf(4, 0, << >>),
      FileOf(3, 0, <<FrameSlot(Frame("TIT2", << <<65>> >>, {}, "ok"), 3),
                     FrameSlot(Frame("TIT2", << >>, {}, "ok"), 3),
                     PaddingSlot(12)>>) }

Init == InitSyncIdle /\ InitFooterIdle /\ InitTag({"throws", "concat"}) /\ file \in TagFiles

\* No render result is kept across another operation, and the operation is no getter
RenderForgotten ==
    /\ renderResult' = [status |-> "none", data |-> << >>]
    /\ consecutiveRenders' = 0
    /\ renderLog' = << >>
    /\ returned' = << >>

\* Id3v2Tag.addFrame(frame)
AddFrame(frame) ==
    /\ pc = "ready"
    /\ nextUid <= MaxFrames
    /\ frameList' = Append(frameList, [frame EXCEPT !.uid = nextUid])
    /\ nextUid' = nextUid + 1
    /\ lastError' = "none"
    /\ RenderForgotten
    /\ UNCHANGED <<copyVars, syncVars, roleFilledFrom, footerVars, staticVars, header, performersRole, parseVars>>

\* Id3v2Tag.flags = value
SetFlags(value) ==
    /\ pc = "ready"
    /\ IF HeaderFlagsAccepted(header[1], value)
       THEN /\ header' = <<[header[1] EXCEPT !.flags = value]>>
            /\ lastError' = "none"
       ELSE /\ lastError' = "Error"
            /\ UNCHANGED header
    /\ RenderForgotten
    /\ UNCHANGED <<copyVars, syncVars, roleFilledFrom, footerVars, staticVars, frameList, performersRole, nextUid, parseVars>>

\* Id3v2Tag.version = value
SetVersion(value) ==
    /\ pc = "ready"
    /\ IF value \in 0..255 /\ value >= 2 /\ value <= 4
       THEN /\ header' = <<HeaderSetMajorVersion(header[1], value)>>
            /\ lastError' = "none"
       ELSE /\ lastError' = "RangeError"
            /\ UNCHANGED header
    /\ RenderForgotten
    /\ UNCHANGED <<copyVars, syncVars, roleFilledFrom, footerVars, staticVars, frameList, performersRole, nextUid, parseVars>>

\* Id3v2Tag.defaultVersion = value
SetDefaultVersion(value) ==
    /\ pc = "ready"
    /\ IF value \in 0..255 /\ value >= 2 /\ value <= 4
       THEN /\ defaultVersion' = value
            /\ lastError' = "none"
       ELSE /\ lastError' = "RangeError"
            /\ UNCHANGED defaultVersion
    /\ RenderForgotten
    /\ UNCHANGED <<copyVars, syncVars, roleFilledFrom, footerVars, forceDefaultVersion, spreadOfUndefined, tagVars, parseVars>>

\* Id3v2Tag.forceDefaultVersion = value
SetForceDefaultVersion(value) ==
    /\ pc = "ready"
    /\ forceDefaultVersion' = value
    /\ lastError' = "none"
    /\ RenderForgotten
    /\ UNCHANGED <<copyVars, syncVars, roleFilledFrom, footerVars, defaultVersion, spreadOfUndefined, tagVars, parseVars>>

\* Id3v2Tag.render()
RenderStep ==
    /\ pc \in {"new", "ready"}
    /\ consecutiveRenders < MaxRenders
    /\ \E r \in {Render(header, frameList, performersRole, spreadOfUndefined)} :
           /\ header' = r.header
           /\ frameList' = r.frames
           /\ renderResult' = [status |-> r.status, data |-> r.data]
           /\ renderLog' = r.log
           /\ lastError' = IF r.status = "ok" THEN "none" ELSE r.status
    /\ consecutiveRenders' = consecutiveRenders + 1
    /\ returned' = << >>
    /\ UNCHANGED <<copyVars, syncVars, roleFilledFrom, footerVars, staticVars, performersRole, nextUid,
                   parseVars>>

Next ==
    \/ \E pictureLazy \in BOOLEAN : Read(pictureLazy)
    \/ ParseScan
    \/ ParsePost
    \/ \E frame \in TagFrames : AddFrame(frame)
    \/ \E value \in {0, 16, 128, 144, 192} : SetFlags(value)
    \/ \E value \in 2..5 : SetVersion(value)
    \/ \E value \in 3..5 : SetDefaultVersion(value)
    \/ \E value \in BOOLEAN : SetForceDefaultVersion(value)
    \/ RenderStep

Spec == Init /\ [][Next]_vars

(***************************************************************************)
(* Properties of render.                                                   *)
(***************************************************************************)
\* This step is a render that returns a buffer
RenderReturns ==
    /\ consecutiveRenders' = consecutiveRenders + 1
    /\ renderResult'.status = "ok"

\* The frames without the TagAlterPreservation flag whose render does not raise
\* "not implemented", in the order of the frame list
RenderedFrames(frames) ==
    SelectSeq(frames, LAMBDA f : "TagAlterPreservation" \notin f.flags /\ f.renders # "notimpl")

RECURSIVE ConcatRendered(_, _)
\* The rendered bytes of the frames, one after the other
ConcatRendered(frames, version) ==
    IF frames = << >> THEN << >>
    ELSE FrameRender(Head(frames), version) \o ConcatRendered(Tail(frames), version)

\* data is body followed by zero bytes only
IsPadded(data, body) ==
    /\ Len(data) >= Len(body)
    /\ SubSeq(data, 1, Len(body)) = body
    /\ \A i \in (Len(body) + 1)..Len(data) : data[i] = 0

\* C4: the frame data render returns is the concatenation, in frame list order, of
\* the rendered bytes of exactly the frames of the tag that carry no
\* TagAlterPreservation flag and whose render does not raise "not implemented"
\* (each frame rendered as the loop marked it, the whole byte-stuffed when the tag is
\* unsynchronized below version 4, and followed by padding)
C4_RenderConcatenatesFrames ==
    [][RenderReturns
           => LET marks == header[1].flags >= 128 /\ Version(header[1]) >= 4
                  chosen == RenderedFrames(frameList)
                  asRendered == [i \in 1..Len(chosen) |->
                                    IF marks
                                    THEN [chosen[i] EXCEPT !.flags = @ \cup {"Desynchronized"}]
                                    ELSE chosen[i]]
                  expected == ConcatRendered(asRendered, header'[1].majorVersion)
              IN  \/ IsPadded(renderResult'.data, expected)
                  \/ IsPadded(renderResult'.data, UnsyncByteVector(expected))]_vars

\* The frame data of the last render: the rendered frames, byte-stuffed as a whole
\* when the tag is unsynchronized and its version is below 4
FrameData ==
    LET expected == ConcatRendered(RenderedFrames(frameList), header[1].majorVersion)
    IN  IF header[1].flags >= 128 /\ Version(header[1]) < 4
        THEN UnsyncByteVector(expected) ELSE expected

HasFooterFlag(flags) == (flags \div 16) % 2 = 1

\* C5: without the footer flag, the length of the buffer render returns is the
\* previous tagSize when the frame data is shorter than that, and otherwise the
\* length of the frame data plus 1024
C5_PaddingLength ==
    (renderResult.status = "ok" /\ ~HasFooterFlag(header[1].flags)) =>
        Len(renderResult.data) =
            IF Len(FrameData) < header[1].tagSize
            THEN header[1].tagSize
            ELSE Len(FrameData) + 1024

\* render has padded frame data up to a previous tagSize that was larger
C5_Witness ==
    /\ renderResult.status = "ok"
    /\ ~HasFooterFlag(header[1].flags)
    /\ Len(FrameData) > 0
    /\ Len(FrameData) < header[1].tagSize
    /\ Len(renderResult.data) = header[1].tagSize

\* C6: with the FooterPresent flag set, render renders every frame at version 4
\* and leaves the header at version 4, whatever forceDefaultVersion and
\* defaultVersion are, and adds no padding: the length returned is that of the
\* frame data
C6_FooterForcesVersion4 ==
    [][(RenderReturns /\ HasFooterFlag(header[1].flags))
           => /\ header'[1].majorVersion = 4
              /\ \A i \in 1..Len(renderLog') : renderLog'[i][2] = 4
              /\ Len(renderLog') = Len(SelectSeq(frameList',
                     LAMBDA f : "TagAlterPreservation" \notin f.flags))
              /\ LET expected == ConcatRendered(RenderedFrames(frameList'), 4)
                 IN  Len(renderResult'.data) \in {Len(expected), Len(UnsyncByteVector(expected))}
              /\ \/ renderResult'.data = ConcatRendered(RenderedFrames(frameList'), 4)
                 \/ renderResult'.data
                      = UnsyncByteVector(ConcatRendered(RenderedFrames(frameList'), 4))]_vars

\* render has returned for a tag with a footer and a rendered frame while
\* forceDefaultVersion selects version 3
C6_Witness ==
    /\ renderResult.status = "ok"
    /\ HasFooterFlag(header[1].flags)
    /\ forceDefaultVersion /\ defaultVersion = 3
    /\ Len(renderLog) > 0
    /\ renderLog[1][2] = 4

\* C7 as stated: render does not change the frame list, any frame's flags, the
\* header's flags or the header's major version
C7_RenderChangesNothing ==
    [][RenderReturns
           => /\ frameList' = frameList
              /\ header'[1].flags = header[1].flags
              /\ header'[1].majorVersion = header[1].majorVersion]_vars

\* The flags a header of the version keeps
SupportedFlags(flags, version) ==
    LET f1 == IF version < 3 THEN flags - ((flags \div 32) % 4) * 32 ELSE flags
    IN  IF version < 4 THEN f1 - ((f1 \div 16) % 2) * 16 ELSE f1

\* C7 as amended: render adds, replaces and reorders no frame and changes no
\* frame's identifier, text or other flags, and leaves tagSize alone; it sets the
\* header's major version to the version rendered at (4 with the footer flag, else
\* the tag's version), clears the ExtendedHeader flag and the flags that version
\* does not support, adds the Desynchronized flag to every frame when the tag is
\* unsynchronized and its version is 4, and removes the TMCL frames
C7_RenderChangesOnly ==
    [][RenderReturns
           => LET kept == SelectSeq(frameList, LAMBDA f : f.frameId # "TMCL")
                  target == IF HasFooterFlag(header[1].flags) THEN 4 ELSE Version(header[1])
                  marks == header[1].flags >= 128 /\ Version(header[1]) >= 4
              IN  /\ Len(frameList') = Len(kept)
                  /\ \A i \in 1..Len(kept) :
                        /\ frameList'[i].uid = kept[i].uid
                        /\ frameList'[i].frameId = kept[i].frameId
                        /\ frameList'[i].text = kept[i].text
                        /\ frameList'[i].renders = kept[i].renders
                        /\ frameList'[i].flags
                             = IF marks THEN kept[i].flags \cup {"Desynchronized"}
                               ELSE kept[i].flags
                  /\ header'[1].tagSize = header[1].tagSize
                  /\ header'[1].majorVersion = target
                  /\ header'[1].flags
                       = LET s == SupportedFlags(header[1].flags, target)
                         IN  s - ((s \div 64) % 2) * 64]_vars

\* render has returned and left the Desynchronized flag on a frame that carries
\* the TagAlterPreservation flag
C7_Witness ==
    /\ renderResult.status = "ok"
    /\ \E i \in 1..Len(frameList) :
          frameList[i].flags = {"TagAlterPreservation", "Desynchronized"}

\* C8: two renders in a row, with no other operation in between, return the same
\* bytes
C8_RenderIdempotent ==
    [][(/\ consecutiveRenders >= 1
        /\ consecutiveRenders' = consecutiveRenders + 1
        /\ renderResult.status = "ok")
           => renderResult' = renderResult]_vars

\* Two renders in a row have returned for an unsynchronized tag with a rendered
\* frame
C8_Witness ==
    /\ consecutiveRenders = 2
    /\ renderResult.status = "ok"
    /\ header[1].flags >= 128
    /\ Len(renderLog) > 0

(***************************************************************************)
(* SetterSpec: a footer is built from a buffer, its setters are called,    *)
(* it is rendered and the bytes are read back; a tag reads an empty file   *)
(* and its version and the default version are set.                        *)
(***************************************************************************)
\* Buffers of a footer without flags, of size 0, for each version byte
SetterBuffers ==
    { FooterFileIdentifier \o <<version, 0, 0, 0, 0, 0, 0>> : version \in {0, 2, 3, 4, 5} }

\* Values handed to the setters
FooterFlagValues == {16, 32, 64, 128, 129}
FooterVersionValues == {3, 4, 5}
FooterRevisionValues == {255, 256, -1}
FooterTagSizeValues == {129, 268435455, 268435456, -1}

SetterInit ==
    /\ footerData \in SetterBuffers
    /\ footer = << >>
    /\ footerError = "unset"
    /\ footerBytes = << >>
    /\ footer2 = << >>
    /\ footer2Error = "unset"
    /\ settingsDefaultVersion \in 2..4
    /\ InitTag({"throws"})
    /\ file = FileOf(3, 0, << >>)
    /\ InitSyncIdle

\* A setter call on the footer with the outcome r
FooterSetStep(r) ==
    /\ footer' = <<r.footer>>
    /\ footerError' = r.error
    /\ UNCHANGED <<copyVars, syncVars, getVars, footerData, footerBytes, footer2, footer2Error, settingsDefaultVersion,
                   staticVars, tagVars, parseVars, renderVars>>

\* footer.flags = value
FooterSetFlagsStep(value) ==
    /\ footer # << >> /\ footerBytes = << >>
    /\ FooterSetStep(FooterSetFlags(footer[1], settingsDefaultVersion, value))

\* footer.majorVersion = value
FooterSetMajorVersionStep(value) ==
    /\ footer # << >> /\ footerBytes = << >>
    /\ FooterSetStep(FooterSetMajorVersion(footer[1], value))

\* footer.revisionNumber = value
FooterSetRevisionNumberStep(value) ==
    /\ footer # << >> /\ footerBytes = << >>
    /\ FooterSetStep(FooterSetRevisionNumber(footer[1], value))

\* footer.tagSize = value
FooterSetTagSizeStep(value) ==
    /\ footer # << >> /\ footerBytes = << >>
    /\ FooterSetStep(FooterSetTagSize(footer[1], value))

SetterNext ==
    \/ FooterFromDataStep
    \/ \E value \in FooterFlagValues : FooterSetFlagsStep(value)
    \/ \E value \in FooterVersionValues : FooterSetMajorVersionStep(value)
    \/ \E value \in FooterRevisionValues : FooterSetRevisionNumberStep(value)
    \/ \E value \in FooterTagSizeValues : FooterSetTagSizeStep(value)
    \/ FooterRenderStep
    \/ FooterReparseStep
    \/ \E pictureLazy \in BOOLEAN : Read(pictureLazy)
    \/ \E value \in {4, 5, 256} : SetVersion(value)
    \/ \E value \in {4, 5, -1} : SetDefaultVersion(value)

SetterSpec == SetterInit /\ [][SetterNext]_vars

(***************************************************************************)
(* Properties of the setters.                                              *)
(***************************************************************************)
\* C11: in every state of a Footer, returned by Footer.fromData and after any
\* setter calls, majorVersion is 4
C11_FooterVersionIs4 ==
    footer # << >> => FooterMajorVersion(footer[1], settingsDefaultVersion) = 4

\* The value has a bit that needs a later version than v: ExtendedHeader or
\* ExperimentalIndicator below 3, FooterPresent below 4
NeedsLaterVersion(value, v) ==
    \/ v < 3 /\ ((value \div 64) % 2 = 1 \/ (value \div 32) % 2 = 1)
    \/ v < 4 /\ (value \div 16) % 2 = 1

\* Every set bit of the value is a flag of version v: bit 7 below 3, bits 7-5 at
\* 3, bits 7-4 from 4 on
OnlyFlagsOf(value, v) ==
    IF v < 3 THEN value \in {0, 128}
    ELSE IF v = 3 THEN value % 32 = 0
    ELSE value % 16 = 0

\* C12: Footer.flags = value fails when the value has the ExtendedHeader or the
\* ExperimentalIndicator bit and majorVersion < 3, or the FooterPresent bit and
\* majorVersion < 4, and leaves the flags alone; a value whose bits are all flags
\* of the major version is stored
C12_FlagsSetterChecks ==
    [][(footer # << >> /\ footer' # << >>
        /\ (footer'[1].flags # footer[1].flags \/ footerError' # footerError))
          => \A value \in FooterFlagValues :
                FooterSetFlagsStep(value)
                   => LET v == FooterMajorVersion(footer[1], settingsDefaultVersion)
                      IN  /\ NeedsLaterVersion(value, v)
                             => (footerError' \notin {"none", "unset"} /\ footer' = footer)
                          /\ OnlyFlagsOf(value, v)
                             => (footerError' = "none" /\ footer'[1].flags = value)]_vars

\* The flags setter has refused a value on a footer whose stored version byte is 0
\* and whose major version is therefore the default version 3
C12_Witness ==
    /\ footer # << >>
    /\ footer[1].majorVersion = 0
    /\ settingsDefaultVersion = 3
    /\ footer[1].flags = 64
    /\ footerError = "Feature only supported in version 2.4+"

\* C13: a setter call that raises changes nothing: after Footer.flags,
\* Footer.majorVersion, Footer.revisionNumber or Footer.tagSize raises, the footer
\* and the settings are as before; after Id3v2Tag.version or Id3v2Tag.defaultVersion
\* raises, the tag and the static configuration are as before
C13_RejectedSetterChangesNothing ==
    [][/\ (footer # << >> /\ footerError' \notin {"none", "unset"})
             => (footer' = footer /\ settingsDefaultVersion' = settingsDefaultVersion)
       /\ lastError' = "RangeError"
             => (/\ header' = header
                 /\ frameList' = frameList
                 /\ performersRole' = performersRole
                 /\ defaultVersion' = defaultVersion
                 /\ forceDefaultVersion' = forceDefaultVersion)]_vars

\* A footer whose setters accepted values has refused a tag size, and a tag whose
\* version was set has refused a version
C13_Witness ==
    /\ footer # << >>
    /\ footer[1].tagSize = 129
    /\ footerError = "RangeError"
    /\ header # << >>
    /\ header[1].majorVersion = 4
    /\ lastError = "RangeError"

\* Values of 28 bits around the limits of the four 7-bit groups
SyncValues ==
    {0, 1, 127, 128, 129, 255, 16383, 16384, 2097151, 2097152, 268435454, 268435455}

\* C16: for a value of 0..2^28-1, toUint(fromUint(v)) is v and fromUint(v) is four
\* bytes below 128; a footer tagSize of that range is rendered as such bytes and
\* read back by fromData as the same tagSize
C16_SyncSafeRoundTrip ==
    /\ \A v \in SyncValues :
          /\ ToUint(FromUint(v)) = v
          /\ Len(FromUint(v)) = 4
          /\ \A i \in 1..4 : FromUint(v)[i] \in 0..127
    /\ (footerBytes # << >> /\ footer[1].tagSize \in 0..268435455)
          => /\ \A i \in 7..10 : footerBytes[i] < 128
             /\ ToUint(SubSeq(footerBytes, 7, 10)) = footer[1].tagSize
             /\ footer2 # << >> => footer2[1].tagSize = footer[1].tagSize

\* The tag size 2^28-1, assigned by the setter, has been rendered and read back
C16_Witness ==
    /\ footer2 # << >>
    /\ footerData[10] = 0
    /\ footer[1].tagSize = 268435455
    /\ footer2[1].tagSize = 268435455

(***************************************************************************)
(* Properties of the frame list.                                           *)
(***************************************************************************)
\* C14 as stated: in every state of a tag the frame list holds no frame of size 0
C14_NoFrameOfSizeZero ==
    \A i \in 1..Len(frameList) : FrameSize(frameList[i]) # 0

\* C14 as amended: read/parse never puts a frame of size 0 into the frame list, a
\* frame of size 0 returned by the frame factory is discarded; until a mutator
\* stores one, the list holds no such frame
C14_ParseDropsFramesOfSizeZero ==
    [][(pc \in {"new", "scan", "post"})
          => \A i \in 1..Len(frameList') : FrameSize(frameList'[i]) # 0]_vars

\* The parse of a file that holds a frame of size 0 has completed, the factory
\* has returned that frame, and the frame list holds the other frame only
C14_Witness ==
    /\ pc = "ready"
    /\ \E i \in 1..Len(file.slots) :
          file.slots[i].kind = "frame" /\ FrameSize(file.slots[i].frame[1]) = 0
    /\ factoryCalls >= 2
    /\ nextUid = 2
    /\ Len(frameList) = 1

(***************************************************************************)
(* SyncSpec: SyncData.unsyncByteVector and SyncData.resyncByteVector are   *)
(* called on a buffer, in any order.                                       *)
(***************************************************************************)
\* MaxBytes bounds the length of the buffer at first, MaxSyncOps the calls on it
MaxBytes == 4
MaxSyncOps == 2

\* The bytes that matter to the byte stuffing, and one that does not
SyncBytes == {0, 1, 224, 255}

\* A version 3 tag with the Unsynchronication flag and one frame
UnsyncFile ==
    FileOf(3, HeaderFlagsUnsynchronication,
           <<FrameSlot(Frame("TIT2", << <<255, 224>> >>, {}, "ok"), 3)>>)

SyncInit ==
    /\ \E n \in 0..MaxBytes : syncInput \in [1..n -> SyncBytes]
    /\ syncBuffer = syncInput
    /\ syncOps = << >>
    /\ InitFooterIdle
    /\ InitTag({"throws"})
    /\ file = UnsyncFile

\* SyncData.unsyncByteVector(syncBuffer)
SyncUnsync ==
    /\ Len(syncOps) < MaxSyncOps
    /\ syncBuffer' = UnsyncByteVector(syncBuffer)
    /\ syncOps' = Append(syncOps, "unsync")
    /\ UNCHANGED <<copyVars, syncInput, getVars, footerVars, staticVars, tagVars, parseVars, renderVars>>

\* SyncData.resyncByteVector(syncBuffer)
SyncResync ==
    /\ Len(syncOps) < MaxSyncOps
    /\ syncBuffer' = ResyncByteVector(syncBuffer)
    /\ syncOps' = Append(syncOps, "resync")
    /\ UNCHANGED <<copyVars, syncInput, getVars, footerVars, staticVars, tagVars, parseVars, renderVars>>

SyncNext ==
    \/ SyncUnsync
    \/ SyncResync
    \/ \E pictureLazy \in BOOLEAN : Read(pictureLazy)

SyncSpec == SyncInit /\ [][SyncNext]_vars

(***************************************************************************)
(* Properties of the byte stuffing.                                        *)
(***************************************************************************)
\* This step is resyncByteVector on what unsyncByteVector made of the first buffer
ResyncAfterUnsync == syncOps = <<"unsync">> /\ syncOps' = <<"unsync", "resync">>

\* This step is the read of a tag that is unsynchronized as a whole
ReadOfUnsyncTag ==
    /\ pc = "new" /\ pc' # "new"
    /\ file.header.majorVersion < 4
    /\ (file.header.flags \div 128) % 2 = 1
    /\ file.header.tagSize > 0

\* C15: resyncByteVector(unsyncByteVector(b)) is b for every buffer b, and the
\* read of a tag of a version below 4 that is unsynchronized as a whole
\* resynchronizes its frame data and goes on to parse the frames
C15_UnsyncResyncInverse ==
    [][/\ ResyncAfterUnsync => syncBuffer' = syncInput
       /\ ReadOfUnsyncTag => pc' = "scan"]_vars

\* The buffer holds no 0xFF 0x00 pair
NoStuffedPair(data) == \A i \in 1..(Len(data) - 1) : ~(data[i] = 255 /\ data[i + 1] = 0)

\* C17 as stated: resyncByteVector on what resyncByteVector returned changes
\* nothing
C17_ResyncIdempotent ==
    [][(syncOps # << >> /\ syncOps[Len(syncOps)] = "resync"
        /\ syncOps' = Append(syncOps, "resync"))
          => syncBuffer' = syncBuffer]_vars

\* C17 as amended: resyncByteVector changes nothing in a buffer that holds no
\* 0xFF 0x00 pair, and what it returns for any buffer is not longer and holds
\* the 0xFF bytes of the buffer
C17_ResyncKeepsPairFreeBuffer ==
    [][(syncOps' = Append(syncOps, "resync"))
          => /\ NoStuffedPair(syncBuffer) => syncBuffer' = syncBuffer
             /\ Len(syncBuffer') <= Len(syncBuffer)
             /\ Len(SelectSeq(syncBuffer', LAMBDA x : x = 255))
                  = Len(SelectSeq(syncBuffer, LAMBDA x : x = 255))]_vars

\* resyncByteVector has been called on a buffer with a 0xFF and a 0x00 that are
\* no pair, and has left it as it was
C17_Witness ==
    /\ syncOps = <<"resync">>
    /\ NoStuffedPair(syncInput)
    /\ \E i \in 1..Len(syncInput) : syncInput[i] = 255
    /\ \E i \in 1..Len(syncInput) : syncInput[i] = 0
    /\ syncBuffer = syncInput

(***************************************************************************)
(* FieldSpec: a tag reads an empty file, is given frames, and its number,  *)
(* comment and lyrics fields are assigned.                                 *)
(***************************************************************************)
\* MaxFieldFrames bounds the frame objects the tag is ever given, by addFrame
\* (up to MaxFrames) or by a setter that creates one
MaxFieldFrames == 3

\* Frames handed to addFrame: a comment "A", lyrics "A", a track "7"
FieldFrames ==
    { Frame("COMM", << <<65>> >>, {}, "ok"),
      Frame("USLT", << <<65>> >>, {}, "ok"),
      Frame("TRCK", << <<55>> >>, {}, "ok") }

\* Arguments of setNumberFrame, and values assigned to comment and lyrics
NumeratorValues == {0, 5, 12, -1}
DenominatorValues == {0, 9}
MinPlacesValues == {1, 2, 256}
StringValues == {<< >>, <<66>>}

FieldInit ==
    /\ InitSyncIdle
    /\ InitFooterIdle
    /\ InitTag({"throws"})
    /\ file = FileOf(3, 0, << >>)

\* The tag's frames become what the setter r left
FieldSet(r) ==
    /\ r.created => nextUid <= MaxFieldFrames
    /\ frameList' = r.frames
    /\ nextUid' = IF r.created THEN nextUid + 1 ELSE nextUid
    /\ lastError' = "none"
    /\ RenderForgotten
    /\ UNCHANGED <<copyVars, syncVars, roleFilledFrom, footerVars, staticVars, header, performersRole, parseVars>>

\* Id3v2Tag.setNumberFrame(ident, numerator, denominator, minPlaces)
SetNumberFrame(ident, numerator, denominator, minPlaces) ==
    /\ pc = "ready"
    /\ IF GuardsUint(numerator) /\ GuardsUint(denominator) /\ GuardsByte(minPlaces)
       THEN \E r \in {SetNumberFrameFrames(frameList, nextUid, ident, numerator,
                                           denominator, minPlaces)} : FieldSet(r)
       ELSE /\ lastError' = "RangeError"
            /\ RenderForgotten
            /\ UNCHANGED <<copyVars, syncVars, roleFilledFrom, footerVars, staticVars, header, frameList,
                           performersRole, nextUid, parseVars>>

\* Id3v2Tag.comment = value
SetComment(value) ==
    /\ pc = "ready"
    /\ \E r \in {SetCommentFrames(frameList, nextUid, value)} : FieldSet(r)

\* Id3v2Tag.lyrics = value
SetLyrics(value) ==
    /\ pc = "ready"
    /\ \E r \in {SetLyricsFrames(frameList, nextUid, value)} : FieldSet(r)

FieldNext ==
    \/ \E pictureLazy \in BOOLEAN : Read(pictureLazy)
    \/ \E frame \in FieldFrames : AddFrame(frame)
    \/ \E numerator \in NumeratorValues, denominator \in DenominatorValues,
          minPlaces \in MinPlacesValues :
           SetNumberFrame("TRCK", numerator, denominator, minPlaces)
    \/ \E value \in StringValues : SetComment(value)
    \/ \E value \in StringValues : SetLyrics(value)

FieldSpec == FieldInit /\ [][FieldNext]_vars

(***************************************************************************)
(* Properties of the field setters.                                        *)
(***************************************************************************)
\* The frames with the identifier, in list order
FramesOf(frames, ident) == SelectSeq(frames, LAMBDA f : f.frameId = ident)

\* The frames with another identifier, in list order
FramesBut(frames, ident) == SelectSeq(frames, LAMBDA f : f.frameId # ident)

\* The part of a string before its first "/"
RECURSIVE BeforeSlash(_)
BeforeSlash(string) ==
    IF string = << >> \/ Head(string) = 47 THEN << >>
    ELSE <<Head(string)>> \o BeforeSlash(Tail(string))

\* The part of a string after its first "/" (empty if it has none)
RECURSIVE AfterSlash(_)
AfterSlash(string) ==
    IF string = << >> THEN << >>
    ELSE IF Head(string) = 47 THEN Tail(string) ELSE AfterSlash(Tail(string))

\* The string is the decimal number n left-filled with zeroes to at least
\* places digits
IsZeroFilled(string, n, places) ==
    /\ Len(string) >= places
    /\ Len(string) >= Len(NumberToString(n))
    /\ Len(string) = places \/ Len(string) = Len(NumberToString(n))
    /\ LET fill == Len(string) - Len(NumberToString(n))
       IN  /\ \A i \in 1..fill : string[i] = 48
           /\ SubSeq(string, fill + 1, Len(string)) = NumberToString(n)

\* The text the first frame with the identifier holds
StoredText(frames, ident) == frames[IndexOfIdent(frames, ident)].text

\* C18: setNumberFrame with both numbers 0 removes the frames with the
\* identifier; otherwise the first such frame holds one text, the numerator
\* alone when the denominator is 0 and numerator "/" denominator when it is
\* not, the numerator written with at least minPlaces digits, left-filled with
\* zeroes
C18_SetNumberFrameText ==
    [][\A numerator \in NumeratorValues, denominator \in DenominatorValues,
          minPlaces \in MinPlacesValues :
          (/\ pc = "ready"
           /\ GuardsUint(numerator) /\ GuardsUint(denominator) /\ GuardsByte(minPlaces)
           /\ SetNumberFrame("TRCK", numerator, denominator, minPlaces))
            => IF numerator = 0 /\ denominator = 0
               THEN FramesOf(frameList', "TRCK") = << >>
               ELSE /\ IndexOfIdent(frameList', "TRCK") # 0
                    /\ Len(StoredText(frameList', "TRCK")) = 1
                    /\ \E text \in {StoredText(frameList', "TRCK")[1]} :
                         /\ IsZeroFilled(BeforeSlash(text), numerator, minPlaces)
                         /\ IF denominator = 0
                            THEN text = BeforeSlash(text)
                            ELSE /\ text # BeforeSlash(text)
                                 /\ AfterSlash(text) = NumberToString(denominator)]_vars

\* The step is an accepted assignment of value to comment or to lyrics
CommentAssigned(value) == pc = "ready" /\ SetComment(value)
LyricsAssigned(value) == pc = "ready" /\ SetLyrics(value)

\* C19 as stated: a non-empty value assigned to comment or to lyrics leaves the
\* frame list and every text unchanged; an empty value removes the matching
\* frames
C19_NonEmptyValueWritesNothing ==
    [][\A value \in StringValues :
          /\ CommentAssigned(value)
               => frameList' = IF value = << >> THEN FramesBut(frameList, "COMM")
                                ELSE frameList
          /\ LyricsAssigned(value)
               => frameList' = IF value = << >> THEN FramesBut(frameList, "USLT")
                                ELSE frameList]_vars

\* C19 as amended: a non-empty value assigned to comment leaves the frame list
\* and every text unchanged; a non-empty value assigned to lyrics is written as
\* the text of the first lyrics frame, which is added at the end of the list if
\* the tag has none, and nothing else changes; an empty value removes the
\* matching frames
C19_OnlyLyricsWritesText ==
    [][\A value \in StringValues :
          /\ CommentAssigned(value)
               => frameList' = IF value = << >> THEN FramesBut(frameList, "COMM")
                                ELSE frameList
          /\ (LyricsAssigned(value) /\ value = << >>)
               => frameList' = FramesBut(frameList, "USLT")
          /\ (LyricsAssigned(value) /\ value # << >>)
               => /\ IndexOfIdent(frameList', "USLT") # 0
                  /\ StoredText(frameList', "USLT") = <<value>>
                  /\ IF IndexOfIdent(frameList, "USLT") # 0
                     THEN frameList' = [frameList EXCEPT
                                          ![IndexOfIdent(frameList, "USLT")].text = <<value>>]
                     ELSE /\ Len(frameList') = Len(frameList) + 1
                          /\ SubSeq(frameList', 1, Len(frameList)) = frameList
                          /\ frameList'[Len(frameList')].frameId = "USLT"]_vars

\* The lyrics frame holds an assigned text next to a comment frame that holds
\* the text it was added with
C19_Witness ==
    /\ IndexOfIdent(frameList, "USLT") # 0
    /\ StoredText(frameList, "USLT") = << <<66>> >>
    /\ IndexOfIdent(frameList, "COMM") # 0
    /\ StoredText(frameList, "COMM") = << <<65>> >>

(***************************************************************************)
(* Properties of render with the Unsynchronication flag.                   *)
(***************************************************************************)
\* The frame was marked Desynchronized by this step
NewlyMarked(f) ==
    /\ "Desynchronized" \in f.flags
    /\ "Desynchronized" \notin FrameOfUid(frameList, f.uid).flags

\* C20: a render of a tag with the Unsynchronication flag marks the frames
\* Desynchronized if and only if the version the frames are rendered at is 4 or
\* more, and byte-stuffs the whole frame data if and only if that version is
\* below 4, also when the footer flag forces version 4 while forceDefaultVersion
\* selects a version below 4
C20_OneUnsyncMode ==
    [][(RenderReturns /\ header[1].flags >= 128)
           => LET target == header'[1].majorVersion
                  expected == ConcatRendered(RenderedFrames(frameList'), target)
              IN  /\ \A i \in 1..Len(renderLog') : renderLog'[i][2] = target
                  /\ \A i \in 1..Len(frameList') :
                         IF target >= 4
                         THEN "Desynchronized" \in frameList'[i].flags
                         ELSE ~NewlyMarked(frameList'[i])
                  /\ IsPadded(renderResult'.data,
                              IF target < 4 THEN UnsyncByteVector(expected)
                              ELSE expected)]_vars

(***************************************************************************)
(* Properties of read.                                                     *)
(***************************************************************************)
\* The tag with header h is one the whole body of which is to be read into memory
WholeTagRequired(h, pictureLazy) ==
    \/ (h.majorVersion < 4 /\ (h.flags \div 128) % 2 = 1)
    \/ h.tagSize < 1024
    \/ pictureLazy
    \/ (h.flags \div 64) % 2 = 1

\* C21: the read of a tag with a tagSize that is not 0, that is unsynchronized
\* below version 4, smaller than 1024 bytes, read with lazy picture loading or
\* that has an extended header, has the tag body in memory before the frames are
\* parsed (the frames are then taken from offset 0 of that buffer, after the
\* extended header if there is one, up to its length), and goes on to the frames
\* without raising
C21_ReadLoadsWholeTag ==
    [][\A pictureLazy \in BOOLEAN :
          (/\ pc = "new"
           /\ file.header.tagSize # 0
           /\ WholeTagRequired(file.header, pictureLazy)
           /\ Read(pictureLazy))
            => /\ pc' = "scan"
               /\ (file.header.flags \div 64) % 2 = 0 => frameDataPosition' = 0
               /\ frameDataPosition' + frameDataEndPosition'
                    = file.header.tagSize - FrameHeaderSize(file.header.majorVersion)]_vars

(***************************************************************************)
(* Properties of the footer's flags.                                       *)
(***************************************************************************)
\* C22: in every state of a Footer, returned by Footer.fromData and after any
\* accepted assignments to flags and majorVersion, no flag bit is set that is
\* illegal for the majorVersion the footer reports (version 2: bits 0-6; version
\* 3: the low 4 bits; version 4: the low 3 bits)
C22_FooterFlagsLegal ==
    footer # << >> =>
        ~IllegalFlagBitSet(FooterMajorVersion(footer[1], settingsDefaultVersion),
                           footer[1].flags)

(***************************************************************************)
(* RoleSpec: a tag reads an empty file, is given performers and role       *)
(* frames, its performersRole is read and assigned, and it is rendered.    *)
(***************************************************************************)
\* Role frames handed to addFrame: "g" played by "A", and "v" by "A, B"
RoleFrames ==
    { Frame("TMCL", << <<103>>, <<65>> >>, {}, "ok"),
      Frame("TMCL", << <<118>>, <<65, 44, 32, 66>> >>, {}, "ok") }

\* Values assigned to performers: none, "A", "B" and "A"
PerformersValues == { << >>, << <<65>> >>, << <<66>>, <<65>> >> }

\* Values assigned to performersRole: undefined, and "g" for the first performer
PerformersRoleValues == { << >>, << << <<103>> >> >> }

RoleInit ==
    /\ InitSyncIdle
    /\ InitFooterIdle
    /\ InitTag({"throws", "concat"})
    /\ file = FileOf(4, 0, << >>)

\* Id3v2Tag.performers = value
SetPerformers(value) ==
    /\ pc = "ready"
    /\ \E r \in {SetTextFrame(frameList, nextUid, "TPE1", value)} : FieldSet(r)

\* Id3v2Tag.performersRole (getter)
GetPerformersRole ==
    /\ pc = "ready"
    /\ IF performersRole # << >>
       THEN /\ returned' = performersRole
            /\ UNCHANGED <<performersRole, roleFilledFrom>>
       ELSE /\ performersRole' = <<ComputePerformersRole(frameList)>>
            /\ returned' = <<ComputePerformersRole(frameList)>>
            /\ roleFilledFrom' = RoleFramesOf(frameList)
    /\ lastError' = "none"
    /\ renderResult' = [status |-> "none", data |-> << >>]
    /\ consecutiveRenders' = 0
    /\ renderLog' = << >>
    /\ UNCHANGED <<copyVars, syncVars, footerVars, staticVars, header, frameList, nextUid, parseVars>>

\* Id3v2Tag.performersRole = value; value is << >> for undefined, <<array>> otherwise
SetPerformersRole(value) ==
    /\ pc = "ready"
    /\ performersRole' = IF value = << >> THEN << << >> >> ELSE value
    /\ roleFilledFrom' = RoleFramesOf(frameList)
    /\ lastError' = "none"
    /\ RenderForgotten
    /\ UNCHANGED <<copyVars, syncVars, footerVars, staticVars, header, frameList, nextUid, parseVars>>

RoleNext ==
    \/ \E pictureLazy \in BOOLEAN : Read(pictureLazy)
    \/ \E frame \in RoleFrames : AddFrame(frame)
    \/ \E value \in PerformersValues : SetPerformers(value)
    \/ GetPerformersRole
    \/ \E value \in PerformersRoleValues : SetPerformersRole(value)
    \/ RenderStep

RoleSpec == RoleInit /\ [][RoleNext]_vars

(***************************************************************************)
(* Properties of the performersRole cache.                                 *)
(***************************************************************************)
\* This step is a read of performersRole
PerformersRoleRead == pc = "ready" /\ returned' # << >> /\ GetPerformersRole

\* C23: a read of performersRole that follows a change of the performers (TPE1)
\* or role (TMCL) frames returns the roles computed from the frames as they are
\* now, not a value cached before the change
C23_RoleCacheInvalidated ==
    [][(PerformersRoleRead /\ roleFilledFrom # RoleFramesOf(frameList))
           => returned' = <<ComputePerformersRole(frameList)>>]_vars

\* This step is a render of a tag that has read its file
RenderOfReadTag == pc = "ready" /\ consecutiveRenders' = consecutiveRenders + 1

\* C24: render of a tag every frame of which renders or raises "not
\* implemented" returns a buffer and raises nothing, whether performersRole was
\* never touched, or was read or assigned before
C24_RenderReturnsBuffer ==
    [][(RenderOfReadTag
        /\ \A i \in 1..Len(frameList) : frameList[i].renders \in {"ok", "notimpl"})
           => /\ renderResult'.status = "ok"
              /\ lastError' = "none"]_vars

(***************************************************************************)
(* CopySpec: a tag reads a file of frames, another tag is given frames,    *)
(* and the first is copied to the other.                                   *)
(***************************************************************************)
\* MaxTargetFrames bounds the frames given to the target by addFrame, MaxCopyUid
\* the frame objects ever made
MaxTargetFrames == 2
MaxCopyUid == 11

\* Frames of the file and of the target: titles "A" and "B", a performer "A"
CopyFrameSet ==
    { Frame("TIT2", << <<65>> >>, {}, "ok"),
      Frame("TIT2", << <<66>> >>, {}, "ok"),
      Frame("TPE1", << <<65>> >>, {}, "ok") }

CopyInit ==
    /\ InitSyncIdle
    /\ InitFooterIdle
    /\ InitTag({"throws"})
    /\ \E k \in 0..MaxSlots :
          \E slots \in [1..k -> {FrameSlot(f, 4) : f \in CopyFrameSet}] :
             file = FileOf(4, 0, slots)

\* target.addFrame(frame)
AddFrameToTarget(frame) ==
    /\ Len(targetFrameList) < MaxTargetFrames
    /\ targetFrameList' = Append(targetFrameList, [frame EXCEPT !.uid = nextUid])
    /\ nextUid' = nextUid + 1
    /\ UNCHANGED <<syncVars, getVars, footerVars, staticVars, header, frameList,
                   performersRole, parseVars, renderVars>>

\* Id3v2Tag.copyTo(target, overwrite), the target being another Id3v2Tag
CopyTo(overwrite) ==
    /\ pc = "ready"
    /\ nextUid + Len(frameList) - 1 <= MaxCopyUid
    /\ \E r \in {CopyFrames(frameList, targetFrameList, overwrite, nextUid, 0)} :
          /\ targetFrameList' = r.target
          /\ nextUid' = r.uid
    /\ lastError' = "none"
    /\ RenderForgotten
    /\ UNCHANGED <<syncVars, roleFilledFrom, footerVars, staticVars, header, frameList,
                   performersRole, parseVars>>

CopyNext ==
    \/ \E pictureLazy \in BOOLEAN : Read(pictureLazy)
    \/ ParseScan
    \/ ParsePost
    \/ \E frame \in CopyFrameSet : AddFrameToTarget(frame)
    \/ \E overwrite \in BOOLEAN : CopyTo(overwrite)

CopySpec == CopyInit /\ [][CopyNext]_vars

(***************************************************************************)
(* Properties of copyTo.                                                   *)
(***************************************************************************)
\* The content of the frames, whatever objects they are
ContentOf(frames) == [i \in 1..Len(frames) |-> [frames[i] EXCEPT !.uid = 0]]

\* The frames of a list from index n + 1 on
After(frames, n) == SubSeq(frames, n + 1, Len(frames))

\* C25: copyTo(target, false) onto another Id3v2Tag leaves the frame list of the
\* source and every frame the target had unchanged, and appends to the target,
\* for every identifier, nothing if a target frame had the identifier before
\* the call and otherwise clones of all the source frames with the identifier,
\* in their source order; the loop ends after at most one round for each source
\* frame
C25_CopyToAddsMissingIdentifiers ==
    [][(pc = "ready" /\ CopyTo(FALSE))
           => /\ frameList' = frameList
              /\ Len(targetFrameList') >= Len(targetFrameList)
              /\ SubSeq(targetFrameList', 1, Len(targetFrameList)) = targetFrameList
              /\ \A ident \in {"TIT2", "TPE1"} :
                    ContentOf(FramesOf(After(targetFrameList', Len(targetFrameList)), ident))
                      = IF FramesOf(targetFrameList, ident) # << >> THEN << >>
                        ELSE ContentOf(FramesOf(frameList, ident))
              /\ \A i \in (Len(targetFrameList) + 1)..Len(targetFrameList') :
                    /\ targetFrameList'[i].frameId \in {"TIT2", "TPE1"}
                    /\ targetFrameList'[i].uid >= nextUid
              /\ CopyFrames(frameList, targetFrameList, FALSE, nextUid, 0).rounds
                    <= Len(frameList)]_vars

\* The target, which had a performer frame, holds after it clones of the two
\* titles of a source in which the performer frame lies between the titles
C25_Witness ==
    /\ pc = "ready"
    /\ Len(frameList) = 3
    /\ frameList[1].frameId = "TIT2" /\ frameList[2].frameId = "TPE1"
    /\ frameList[3].frameId = "TIT2" /\ frameList[3].text # frameList[1].text
    /\ Len(targetFrameList) = 3
    /\ targetFrameList[1].frameId = "TPE1"
    /\ ContentOf(After(targetFrameList, 1)) = ContentOf(<<frameList[1], frameList[3]>>)
    /\ \A i \in 1..3, j \in 1..3 : targetFrameList[i].uid # frameList[j].uid

(***************************************************************************)
(* PropertySpec: a tag reads an empty file, and its year and identifier    *)
(* properties are assigned and read.                                       *)
(***************************************************************************)
\* MaxPropertyFrames bounds the frame objects the setters ever create
MaxPropertyFrames == 3

\* Values assigned to year, and to the identifier properties ("" and "v;w")
YearValues == {0, 1, 999, 1000, 9999, 10000, -1}
IdValues == {<< >>, <<118, 59, 119>>}

PropertyInit ==
    /\ InitSyncIdle
    /\ InitFooterIdle
    /\ InitTag({"throws"})
    /\ file = FileOf(4, 0, << >>)

\* The tag's frames become what the setter r left
PropertySet(r) ==
    /\ r.created => nextUid <= MaxPropertyFrames
    /\ frameList' = r.frames
    /\ nextUid' = IF r.created THEN nextUid + 1 ELSE nextUid
    /\ lastError' = "none"
    /\ RenderForgotten
    /\ UNCHANGED <<syncVars, roleFilledFrom, copyVars, footerVars, staticVars, header,
                   performersRole, parseVars>>

\* A getter returns value
PropertyGet(value) ==
    /\ returned' = <<value>>
    /\ lastError' = "none"
    /\ renderResult' = [status |-> "none", data |-> << >>]
    /\ consecutiveRenders' = 0
    /\ renderLog' = << >>
    /\ UNCHANGED <<syncVars, roleFilledFrom, copyVars, footerVars, staticVars, tagVars,
                   parseVars>>

\* Id3v2Tag.year = value
SetYear(value) ==
    /\ pc = "ready"
    /\ IF GuardsUint(value)
       THEN \E r \in {SetNumberFrameFrames(frameList, nextUid, "TDRC",
                                           IF value > 9999 THEN 0 ELSE value, 0, 1)} :
               PropertySet(r)
       ELSE /\ lastError' = "RangeError"
            /\ RenderForgotten
            /\ UNCHANGED <<syncVars, roleFilledFrom, copyVars, footerVars, staticVars,
                           tagVars, parseVars>>

\* Id3v2Tag.year (getter)
GetYear ==
    /\ pc = "ready"
    /\ PropertyGet(GetYearValue(frameList))

\* An identifier property = value
SetIdentifier(property, value) ==
    /\ pc = "ready"
    /\ \E r \in {SetKeyedText(frameList, nextUid, IdFrameType(property),
                              SetterKey(property), value)} : PropertySet(r)

\* An identifier property (getter)
GetIdentifier(property) ==
    /\ pc = "ready"
    /\ PropertyGet(GetKeyedText(frameList, IdFrameType(property), GetterKey(property)))

PropertyNext ==
    \/ \E pictureLazy \in BOOLEAN : Read(pictureLazy)
    \/ \E value \in YearValues : SetYear(value)
    \/ GetYear
    \/ \E property \in IdProperties, value \in IdValues : SetIdentifier(property, value)
    \/ \E property \in IdProperties : GetIdentifier(property)

PropertySpec == PropertyInit /\ [][PropertyNext]_vars

(***************************************************************************)
(* Properties of the year and identifier properties.                       *)
(***************************************************************************)
\* C26: after tag.year = y with 1 <= y <= 9999, tag.year is y
C26_YearRoundTrip ==
    [][\A y \in YearValues :
          (pc = "ready" /\ 1 <= y /\ y <= 9999 /\ SetYear(y))
             => GetYearValue(frameList') = y]_vars

\* C27: after a non-empty string is assigned to an identifier property, the
\* property is that string
C27_IdentifierRoundTrip ==
    [][\A property \in IdProperties, value \in IdValues :
          (pc = "ready" /\ value # << >> /\ SetIdentifier(property, value))
             => GetKeyedText(frameList', IdFrameType(property), GetterKey(property))
                  = value]_vars

====
